---- MODULE Spec2Model ----
(***************************************************************************)
(* Exhibition tracker: the scheduler (backend/scheduler.py), the store     *)
(* (backend/scraper/models.py) and the per-site orchestrator               *)
(* (backend/scraper/orchestrator.py) as state machines.                    *)
(*                                                                         *)
(* Spec      the scheduler and the store: registry import, due-site        *)
(*           selection, batches of concurrent scrape_museum tasks, the     *)
(*           store's writes.  run_for_museum is an input here: it returns  *)
(*           a list of exhibitions or raises.                              *)
(* SpecOrch  one run of run_for_museum: listing, candidate dedup, the      *)
(*           concurrent detail tasks under the semaphore, merge and final  *)
(*           dedup.                                                        *)
(***************************************************************************)
EXTENDS Integers, Sequences, FiniteSets, TLC

\* Python None / SQL NULL for text values.
Null == "null"

\* SQL NULL for a timestamp (timestamps are whole seconds >= 0).
NullTime == 0 - 1

(***************************************************************************)
(* Bounds of the model.                                                    *)
(***************************************************************************)
\* Rows of the registry CSV.
NumSites == 3
\* Top-level scheduler operations (CLI actions) in one behaviour.
MaxOps == 2
\* Distinct exhibition titles a crawl can return.
MaxTitles == 2
\* Sub-day clock ticks the clock may advance by single ticks.
MaxTicks == 1
\* Clock ticks per second: the clock is finer than the stored timestamps.
TicksPerSecond == 2
\* The max_concurrent argument of scrape_outdated_museums.
MaxConcurrent == 2

(***************************************************************************)
(* Program constants.                                                      *)
(***************************************************************************)
\* 24 * 60 * 60 in get_museums_to_scrape.
DaySeconds == 86400
\* days_until_rescrape, the default of MuseumScheduler and of --days.
DaysUntilRescrape == 90
\* days_old passed by scrape_specific_museum ("all").
AllDays == 99999
\* scheduler.days_until_rescrape as forced by the scrape-all action.
ScrapeAllDays == 0

VARIABLES
    clock,              \* wall clock, in ticks
    museums,            \* the museums table: site id -> row
    exhibitions,        \* the exhibitions table: set of rows
    spc,                \* position of the scheduler coroutine
    op,                 \* the operation the scheduler runs
    nops,               \* operations started so far
    museums_to_scrape,  \* scrape_outdated_museums: the due list
    bi,                 \* scrape_outdated_museums: first index of the batch
    tasks,              \* the scrape_museum coroutines of the batch
    results,            \* scrape_outdated_museums: results
    ret,                \* value returned by the last operation
    orch_raised,        \* history: sites whose run_for_museum raised in this op
    crawl_history,      \* history: each site's last crawl outcome and the clock
                        \* of its last successful crawl
    opc,                \* run_for_museum: its position
    items,              \* run_for_museum: what extract_listing returned
    dedup_items,        \* run_for_museum: items deduplicated by href
    base_records,       \* run_for_museum: one listing record per dedup item
    dtasks,             \* the _fetch_detail_and_extract coroutines, one per todo item
    semaphore,          \* value of self.semaphore
    per_page_timings,   \* the per-page dict, in insertion order: <<[href, status]>>
    run_result,         \* what run_for_museum returned
    cache,              \* the cache directory: url -> cached html, or Missing
    calls,              \* the fetch_html calls made so far, with their position
    driver,             \* per PageCondenser: _driver (live or None), _selenium_headless
    closed,             \* per PageCondenser: close() was called
    today,              \* save_exhibitions: day of the month of the current date
    save_list,          \* save_exhibitions: the exhibition list a crawl produces
    ex_rows,            \* save_exhibitions: the exhibitions table, in insertion order
    save_log,           \* history: per museum, its rows after each save of the list
    T1,                 \* normalize_title_key: a title
    T2,                 \* normalize_title_key: another title
    keys,               \* <<normalize_title_key(T1), normalize_title_key(T2)>> once computed
    artists,            \* the artists table in id order: <<[name, normalized_name]>>
    artist_calls,       \* history: the get_or_create_artist calls, <<[name, id]>>
    countries,          \* the countries table in id order: <<name>>
    cities,             \* the cities table in id order: <<[name, country_id]>>
    museum_rows,        \* the museums table in id order: <<[name, city_id, scrape_status]>>
    import_log,         \* history: the operations on the registry tables,
                        \* <<[kind, csv, before, after]>>
    range_text,         \* parse_date_range_text: the text, split at its range dash
    range_now,          \* parse_date_range_text: the current date
    range_result,       \* parse_date_range_text: <<start_iso, end_iso>> once computed
    raw_items,          \* extract_listing: data["items"] as the capability returned it
    listing_outcome,    \* extract_listing: what the call returned, or that it raised
    lpc,                \* _get_listing_bundle: its position
    follow_pagination,  \* the orchestrator's follow_pagination argument
    bundles,            \* _get_listing_bundle: the bundles obtained so far
    pager_index,        \* _get_listing_bundle: pagers followed or skipped so far
    fetched,            \* history: the urls handed to condense_url, in order
    merged,             \* _get_listing_bundle: the bundle it returned
    merge_results,      \* run_for_museum step 6: results, the merged records
    uniq_kept,          \* run_for_museum step 6: uniq, the records kept
    dedup_done,         \* run_for_museum step 6 has run
    detail_mode,        \* the orchestrator's detail_mode argument
    light_cap,          \* the orchestrator's light_cap argument
    candidates_in,      \* run_for_museum step 4: dedup_items
    todo_sel,           \* run_for_museum step 4: the items selected for detail fetch
    detail_coros,       \* run_for_museum step 5: hrefs of the detail coroutines created
    todo_done,          \* run_for_museum steps 4 and 5 (start) have run
    page_tasks,         \* the detail tasks of a site one of whose pages never responds
    slow_driver,        \* that site's condenser: _driver (live or None), _selenium_headless
    site_pc,            \* scrape_museum of that site: its position
    peer_pc,            \* scrape_museum of the other site of the batch: its position
    batch_pc,           \* scrape_outdated_museums around that batch: its position
    api_tasks           \* the background tasks the API added, each with its scheduler call

schedVars == <<clock, museums, exhibitions, spc, op, nops, museums_to_scrape,
               bi, tasks, results, ret, orch_raised, crawl_history>>

orchVars == <<opc, items, dedup_items, base_records, dtasks, semaphore,
              per_page_timings, run_result>>

fetchVars == <<cache, calls, driver, closed>>

saveVars == <<today, save_list, ex_rows, save_log>>

keyVars == <<T1, T2, keys>>

artistVars == <<artists, artist_calls>>

registryVars == <<countries, cities, museum_rows, import_log>>

rangeVars == <<range_text, range_now, range_result>>

listingVars == <<raw_items, listing_outcome>>

bundleVars == <<lpc, follow_pagination, bundles, pager_index, fetched, merged>>

dedupVars == <<merge_results, uniq_kept, dedup_done>>

todoVars == <<detail_mode, light_cap, candidates_in, todo_sel, detail_coros, todo_done>>

slowVars == <<page_tasks, slow_driver, site_pc, peer_pc, batch_pc>>

apiVars == <<api_tasks>>

vars == <<schedVars, orchVars, fetchVars, saveVars, keyVars, artistVars,
          registryVars, rangeVars, listingVars, bundleVars, dedupVars, todoVars,
          slowVars, apiVars>>

\* What the scheduler's steps, run_for_museum's steps and fetch_html's steps
\* leave alone.
notSchedVars ==
    <<orchVars, fetchVars, saveVars, keyVars, artistVars, registryVars,
      rangeVars, listingVars, bundleVars, dedupVars, todoVars, slowVars,
      apiVars>>
notOrchVars ==
    <<schedVars, fetchVars, saveVars, keyVars, artistVars, registryVars,
      rangeVars, listingVars, bundleVars, dedupVars, todoVars, slowVars,
      apiVars>>
notFetchVars ==
    <<schedVars, orchVars, saveVars, keyVars, artistVars, registryVars,
      rangeVars, listingVars, bundleVars, dedupVars, todoVars, slowVars,
      apiVars>>
notSaveVars ==
    <<schedVars, orchVars, fetchVars, keyVars, artistVars, registryVars,
      rangeVars, listingVars, bundleVars, dedupVars, todoVars, slowVars,
      apiVars>>
notKeyVars ==
    <<schedVars, orchVars, fetchVars, saveVars, artistVars, registryVars,
      rangeVars, listingVars, bundleVars, dedupVars, todoVars, slowVars,
      apiVars>>
notArtistVars ==
    <<schedVars, orchVars, fetchVars, saveVars, keyVars, registryVars,
      rangeVars, listingVars, bundleVars, dedupVars, todoVars, slowVars,
      apiVars>>
notRegistryVars ==
    <<schedVars, orchVars, fetchVars, saveVars, keyVars, artistVars, rangeVars,
      listingVars, bundleVars, dedupVars, todoVars, slowVars, apiVars>>
notRangeVars ==
    <<schedVars, orchVars, fetchVars, saveVars, keyVars, artistVars,
      registryVars, listingVars, bundleVars, dedupVars, todoVars, slowVars,
      apiVars>>
notListingVars ==
    <<schedVars, orchVars, fetchVars, saveVars, keyVars, artistVars,
      registryVars, rangeVars, bundleVars, dedupVars, todoVars, slowVars,
      apiVars>>
notBundleVars ==
    <<schedVars, orchVars, fetchVars, saveVars, keyVars, artistVars,
      registryVars, rangeVars, listingVars, dedupVars, todoVars, slowVars,
      apiVars>>
notDedupVars ==
    <<schedVars, orchVars, fetchVars, saveVars, keyVars, artistVars,
      registryVars, rangeVars, listingVars, bundleVars, todoVars, slowVars,
      apiVars>>
notTodoVars ==
    <<schedVars, orchVars, fetchVars, saveVars, keyVars, artistVars,
      registryVars, rangeVars, listingVars, bundleVars, dedupVars, slowVars,
      apiVars>>
notSlowVars ==
    <<schedVars, orchVars, fetchVars, saveVars, keyVars, artistVars,
      registryVars, rangeVars, listingVars, bundleVars, dedupVars, todoVars,
      apiVars>>
notApiVars ==
    <<schedVars, orchVars, fetchVars, saveVars, keyVars, artistVars,
      registryVars, rangeVars, listingVars, bundleVars, dedupVars, todoVars,
      slowVars>>

Sites == 1 .. NumSites
Titles == 1 .. MaxTitles
Errors == {"listing unreachable"}

Min(a, b) == IF a <= b THEN a ELSE b

(***************************************************************************)
(* The registry CSV: one row per site.  Sites 1 and 2 carry the same       *)
(* museum name in two cities; every other site has a name of its own.      *)
(***************************************************************************)
MuseumName(s) == IF s = 2 THEN 1 ELSE s
MuseumCity(s) == s
\* A name no row of the CSV carries.
UnknownName == NumSites + 1
Names == {MuseumName(s) : s \in Sites} \cup {UnknownName}

\* A row as INSERT INTO museums (name, city_id, url) creates it.
NewMuseumRow(s) ==
    [name |-> MuseumName(s), city |-> MuseumCity(s), last_scraped |-> NullTime,
     scrape_status |-> "pending", exhibition_count |-> 0, error_message |-> Null]

\* get_or_create_museum for every CSV row: rows present are kept as they are.
ImportMuseumsFromCsv(ms) ==
    [s \in (DOMAIN ms) \cup Sites |-> IF s \in DOMAIN ms THEN ms[s] ELSE NewMuseumRow(s)]

(***************************************************************************)
(* Time.  datetime.now(UTC).timestamp() is the clock in (fractional)       *)
(* seconds; CURRENT_TIMESTAMP and datetime(x, 'unixepoch') are text with   *)
(* whole seconds: the fraction is dropped (floor).                         *)
(***************************************************************************)
CurrentTimestamp(now) == now \div TicksPerSecond

DayTicks == DaySeconds * TicksPerSecond

\* cutoff_date = now - days_old * 24 * 60 * 60 rendered by datetime(?, 'unixepoch'):
\* the whole seconds of now, less days_old days.  The text is kept as the pair
\* (whole days, seconds of the day) so that 99999 days fit the checker's integers.
CutoffDate(now, days_old) ==
    [days |-> (CurrentTimestamp(now) \div DaySeconds) - days_old,
     secs |-> CurrentTimestamp(now) % DaySeconds]

\* Mutant of TimestampBefore: <= for <.
TimestampNotAfter(last_scraped, cutoff) ==
    \/ last_scraped \div DaySeconds < cutoff.days
    \/ /\ last_scraped \div DaySeconds = cutoff.days
       /\ last_scraped % DaySeconds <= cutoff.secs

\* m.last_scraped < datetime(?, 'unixepoch'): both sides are
\* 'YYYY-MM-DD HH:MM:SS' texts, compared day first, then time of day.
TimestampBefore(last_scraped, cutoff) ==
    \/ last_scraped \div DaySeconds < cutoff.days
    \/ /\ last_scraped \div DaySeconds = cutoff.days
       /\ last_scraped % DaySeconds < cutoff.secs

\* WHERE m.last_scraped IS NULL OR m.last_scraped < datetime(?, 'unixepoch')
NeedsScrape(row, now, days_old) ==
    \/ row.last_scraped = NullTime
    \/ TimestampBefore(row.last_scraped, CutoffDate(now, days_old))

\* ORDER BY m.last_scraped ASC: NULLs first, ties in rowid order.
RECURSIVE OrderByLastScraped(_, _)
OrderByLastScraped(ms, set) ==
    IF set = {} THEN <<>>
    ELSE LET first == CHOOSE s \in set : \A t \in set :
                          \/ ms[s].last_scraped < ms[t].last_scraped
                          \/ ms[s].last_scraped = ms[t].last_scraped /\ s <= t
         IN  <<first>> \o OrderByLastScraped(ms, set \ {first})

GetMuseumsToScrape(ms, now, days_old) ==
    OrderByLastScraped(ms, {s \in DOMAIN ms : NeedsScrape(ms[s], now, days_old)})

(***************************************************************************)
(* The store.  db is [museums, exhibitions].  An exhibition row is         *)
(* projected on (museum_id, title): a crawl result holds pairwise distinct *)
(* titles, so no two of its rows meet UNIQUE(title, museum_id,             *)
(* start_date_iso).                                                        *)
(***************************************************************************)
\* Mutant of UpdateMuseumStatus: last_scraped is not set.
UpdateMuseumStatusKeepingTime(db, now, museum_name, status, exhibition_count, error) ==
    [db EXCEPT !.museums =
        [s \in DOMAIN db.museums |->
            IF db.museums[s].name = museum_name
            THEN [db.museums[s] EXCEPT !.scrape_status = status,
                                       !.exhibition_count = exhibition_count,
                                       !.error_message = error]
            ELSE db.museums[s]]]

\* UPDATE museums SET ... WHERE name = ?
UpdateMuseumStatus(db, now, museum_name, status, exhibition_count, error) ==
    [db EXCEPT !.museums =
        [s \in DOMAIN db.museums |->
            IF db.museums[s].name = museum_name
            THEN [db.museums[s] EXCEPT !.last_scraped = CurrentTimestamp(now),
                                       !.scrape_status = status,
                                       !.exhibition_count = exhibition_count,
                                       !.error_message = error]
            ELSE db.museums[s]]]

\* SELECT id FROM museums WHERE name = ? AND city_id = ?  (the scheduler
\* passes a museum read from the table, so the row exists).
GetOrCreateMuseum(db, museum_name, museum_city) ==
    CHOOSE s \in DOMAIN db.museums :
        db.museums[s].name = museum_name /\ db.museums[s].city = museum_city

ExhibitionsOf(rows, museum_id) == {r \in rows : r.museum_id = museum_id}

\* An empty list returns at once; otherwise delete-then-insert for the
\* museum, then update_museum_status(museum_name, "success", saved_count).
SaveExhibitions(db, now, exs, museum_name, museum_city) ==
    IF exs = <<>> THEN db
    ELSE LET museum_id == GetOrCreateMuseum(db, museum_name, museum_city)
             kept == db.exhibitions \ ExhibitionsOf(db.exhibitions, museum_id)
             new == {[museum_id |-> museum_id, title |-> exs[i]] : i \in 1 .. Len(exs)}
             saved == [db EXCEPT !.exhibitions = kept \cup new]
         IN  UpdateMuseumStatus(saved, now, museum_name, "success", Cardinality(new), Null)

(***************************************************************************)
(* scrape_museum, after run_for_museum returned or raised.                 *)
(***************************************************************************)
NoResult == [status |-> "pending", museum |-> UnknownName, exhibitions_count |-> 0, error |-> Null]

SuccessResult(s, exs) ==
    [status |-> "success", museum |-> MuseumName(s), exhibitions_count |-> Len(exs), error |-> Null]

FailureResult(s, e) ==
    [status |-> "failed", museum |-> MuseumName(s), exhibitions_count |-> 0, error |-> e]

\* try: save_exhibitions; update_museum_status(name, "success", len(exhibitions))
ScrapeMuseumSuccess(db, now, s, exs) ==
    UpdateMuseumStatus(SaveExhibitions(db, now, exs, MuseumName(s), MuseumCity(s)),
                       now, MuseumName(s), "success", Len(exs), Null)

\* Mutant of ScrapeMuseumFailure: the failure path also clears the museum's rows.
ScrapeMuseumFailureClearing(db, now, s, e) ==
    UpdateMuseumStatus([db EXCEPT !.exhibitions = @ \ ExhibitionsOf(@, s)],
                       now, MuseumName(s), "failed", 0, e)

\* except Exception as e: update_museum_status(name, "failed", error=str(e))
ScrapeMuseumFailure(db, now, s, e) ==
    UpdateMuseumStatus(db, now, MuseumName(s), "failed", 0, e)

\* What run_for_museum can return: exhibitions with pairwise distinct titles
\* (its final dedup); here the lists <<>>, <<1>>, <<1, 2>>, ...
CrawlResults == {[i \in 1 .. n |-> i] : n \in 0 .. MaxTitles}

(***************************************************************************)
(* scrape_outdated_museums and scrape_specific_museum.                     *)
(***************************************************************************)
\* Mutant of Batch: the slice has no upper end (museums_to_scrape[i:]).
BatchUnbounded(due, i) == SubSeq(due, i, Len(due))

\* batch = museums_to_scrape[i:i + max_concurrent]
Batch(due, i) == SubSeq(due, i, Min(i + MaxConcurrent - 1, Len(due)))

\* asyncio.gather(*[self.scrape_museum(m) for m in batch]): one coroutine per
\* museum, each at its await of run_for_museum.  found (what run_for_museum
\* returned) and prior (the museum's rows when the task was created) are history.
NewTasks(batch, rows) ==
    [j \in 1 .. Len(batch) |->
        [site |-> batch[j], pc |-> "orch", res |-> NoResult, found |-> <<>>,
         prior |-> ExhibitionsOf(rows, batch[j])]]

\* Mutant of Gather: the first failure of a batch replaces every result of the
\* batch ([batch_error] * len(batch)).
GatherAborting(ts) ==
    IF \E j \in 1 .. Len(ts) : ts[j].res.status = "failed"
    THEN LET f == CHOOSE j \in 1 .. Len(ts) : ts[j].res.status = "failed"
         IN  [j \in 1 .. Len(ts) |-> FailureResult(ts[j].site, ts[f].res.error)]
    ELSE [j \in 1 .. Len(ts) |-> ts[j].res]

\* batch_results of gather(..., return_exceptions=True): by position.  Every
\* scrape_museum returns a dict, so the normalisation loop appends them as they are.
Gather(ts) == [j \in 1 .. Len(ts) |-> ts[j].res]

Count(rs, status) == Cardinality({k \in 1 .. Len(rs) : rs[k].status = status})

NoReturn == [status |-> "none", museums_scraped |-> 0, museums_failed |-> 0,
             results |-> <<>>, message |-> UnknownName]

UpToDate == [NoReturn EXCEPT !.status = "up_to_date"]

\* Mutant of Complete: every result is counted as scraped.
CompleteCountingAll(rs) ==
    [NoReturn EXCEPT !.status = "complete", !.museums_scraped = Len(rs),
                     !.museums_failed = Count(rs, "failed"), !.results = rs]

Complete(rs) ==
    [NoReturn EXCEPT !.status = "complete", !.museums_scraped = Count(rs, "success"),
                     !.museums_failed = Count(rs, "failed"), !.results = rs]

NotFound(museum_name) == [NoReturn EXCEPT !.status = "error", !.message = museum_name]

Returned(res) == [NoReturn EXCEPT !.status = res.status, !.results = <<res>>]

Db == [museums |-> museums, exhibitions |-> exhibitions]

SchedInit ==
    /\ clock = 0
    /\ museums = [s \in {} |-> NewMuseumRow(s)]
    /\ exhibitions = {}
    /\ spc = "idle"
    /\ op = [kind |-> "none", days |-> 0, name |-> UnknownName]
    /\ nops = 0
    /\ museums_to_scrape = <<>>
    /\ bi = 0
    /\ tasks = <<>>
    /\ results = <<>>
    /\ ret = NoReturn
    /\ orch_raised = {}
    /\ crawl_history = [s \in Sites |-> [last_outcome |-> "none", last_success |-> NullTime]]

\* Time passes: by one tick, or by the re-crawl interval.
Tick ==
    /\ \E d \in {1, DaysUntilRescrape * DayTicks} :
          /\ d = 1 => (clock % DayTicks) < MaxTicks
          /\ d > 1 => clock < DayTicks
          /\ clock' = clock + d
    /\ UNCHANGED <<museums, exhibitions, spc, op, nops, museums_to_scrape, bi,
                   tasks, results, ret, orch_raised, crawl_history>>
    /\ UNCHANGED notSchedVars

\* --action sync-csv
SyncCsv ==
    /\ spc \in {"idle", "returned"}
    /\ museums' = ImportMuseumsFromCsv(museums)
    /\ museums' # museums
    /\ op' = [kind |-> "sync", days |-> 0, name |-> UnknownName]
    /\ spc' = "returned"
    /\ ret' = NoReturn
    /\ UNCHANGED <<clock, exhibitions, nops, museums_to_scrape, bi, tasks,
                   results, orch_raised, crawl_history>>
    /\ UNCHANGED notSchedVars

\* --action update (days = 90) and --action scrape-all (days = 0).
StartOutdated ==
    /\ spc \in {"idle", "returned"}
    /\ nops < MaxOps
    /\ \E days \in {DaysUntilRescrape, ScrapeAllDays} :
          LET synced == ImportMuseumsFromCsv(museums)
              due == GetMuseumsToScrape(synced, clock, days)
          IN  /\ museums' = synced
              /\ museums_to_scrape' = due
              /\ op' = [kind |-> "outdated", days |-> days, name |-> UnknownName]
              /\ IF due = <<>>
                 THEN /\ spc' = "returned"
                      /\ ret' = UpToDate
                      /\ bi' = 0
                      /\ tasks' = <<>>
                 ELSE /\ spc' = "gather"
                      /\ ret' = NoReturn
                      /\ bi' = 1
                      /\ tasks' = NewTasks(Batch(due, 1), exhibitions)
    /\ nops' = nops + 1
    /\ results' = <<>>
    /\ orch_raised' = {}
    /\ UNCHANGED <<clock, exhibitions, crawl_history>>
    /\ UNCHANGED notSchedVars

\* run_for_museum returned exs: save, update the status, return the success dict.
OrchestratorReturns ==
    /\ \E j \in DOMAIN tasks, exs \in CrawlResults :
          /\ tasks[j].pc = "orch"
          /\ LET s == tasks[j].site
                 db == ScrapeMuseumSuccess(Db, clock, s, exs)
             IN  /\ museums' = db.museums
                 /\ exhibitions' = db.exhibitions
                 /\ tasks' = [tasks EXCEPT ![j].pc = "close", ![j].res = SuccessResult(s, exs),
                                           ![j].found = exs]
                 /\ crawl_history' = [crawl_history EXCEPT ![s] =
                        [last_outcome |-> "success", last_success |-> clock]]
    /\ UNCHANGED <<clock, spc, op, nops, museums_to_scrape, bi, results, ret, orch_raised>>
    /\ UNCHANGED notSchedVars

\* run_for_museum raised e: mark the site failed, return the failure dict.
OrchestratorRaises ==
    /\ \E j \in DOMAIN tasks, e \in Errors :
          /\ tasks[j].pc = "orch"
          /\ LET s == tasks[j].site
                 db == ScrapeMuseumFailure(Db, clock, s, e)
             IN  /\ museums' = db.museums
                 /\ exhibitions' = db.exhibitions
                 /\ tasks' = [tasks EXCEPT ![j].pc = "close", ![j].res = FailureResult(s, e)]
                 /\ orch_raised' = orch_raised \cup {s}
                 /\ crawl_history' = [crawl_history EXCEPT ![s].last_outcome = "failed"]
    /\ UNCHANGED <<clock, spc, op, nops, museums_to_scrape, bi, results, ret>>
    /\ UNCHANGED notSchedVars

\* finally: await condenser.close()
CloseCondenser ==
    /\ \E j \in DOMAIN tasks :
          /\ tasks[j].pc = "close"
          /\ tasks' = [tasks EXCEPT ![j].pc = "done"]
    /\ UNCHANGED <<clock, museums, exhibitions, spc, op, nops, museums_to_scrape, bi,
                   results, ret, orch_raised, crawl_history>>
    /\ UNCHANGED notSchedVars

\* gather returned: append the batch's results; sleep before the next batch
\* or return the summary.
GatherDone ==
    /\ spc = "gather"
    /\ \A j \in DOMAIN tasks : tasks[j].pc = "done"
    /\ LET rs == results \o Gather(tasks)
       IN  /\ results' = rs
           /\ IF bi + MaxConcurrent <= Len(museums_to_scrape)
              THEN spc' = "sleep" /\ ret' = ret
              ELSE spc' = "returned" /\ ret' = Complete(rs)
    /\ tasks' = <<>>
    /\ UNCHANGED <<clock, museums, exhibitions, op, nops, museums_to_scrape, bi,
                   orch_raised, crawl_history>>
    /\ UNCHANGED notSchedVars

\* await asyncio.sleep(2) is over: the next batch.
SleepDone ==
    /\ spc = "sleep"
    /\ bi' = bi + MaxConcurrent
    /\ tasks' = NewTasks(Batch(museums_to_scrape, bi + MaxConcurrent), exhibitions)
    /\ spc' = "gather"
    /\ UNCHANGED <<clock, museums, exhibitions, op, nops, museums_to_scrape, results,
                   ret, orch_raised, crawl_history>>
    /\ UNCHANGED notSchedVars

\* --action scrape-museum --museum name
StartSpecific ==
    /\ spc \in {"idle", "returned"}
    /\ nops < MaxOps
    /\ \E museum_name \in Names :
          LET all == GetMuseumsToScrape(museums, clock, AllDays)
              hits == {k \in 1 .. Len(all) : MuseumName(all[k]) = museum_name}
          IN  /\ op' = [kind |-> "specific", days |-> AllDays, name |-> museum_name]
              /\ museums_to_scrape' = all
              /\ IF hits = {}
                 THEN /\ spc' = "returned"
                      /\ ret' = NotFound(museum_name)
                      /\ tasks' = <<>>
                 ELSE /\ spc' = "specific"
                      /\ ret' = NoReturn
                      /\ tasks' = NewTasks(<<all[CHOOSE k \in hits : \A l \in hits : k <= l]>>,
                                           exhibitions)
    /\ nops' = nops + 1
    /\ bi' = 0
    /\ results' = <<>>
    /\ orch_raised' = {}
    /\ UNCHANGED <<clock, museums, exhibitions, crawl_history>>
    /\ UNCHANGED notSchedVars

\* return await self.scrape_museum(museum)
SpecificDone ==
    /\ spc = "specific"
    /\ \A j \in DOMAIN tasks : tasks[j].pc = "done"
    /\ ret' = Returned(tasks[1].res)
    /\ spc' = "returned"
    /\ tasks' = <<>>
    /\ UNCHANGED <<clock, museums, exhibitions, op, nops, museums_to_scrape, bi,
                   results, orch_raised, crawl_history>>
    /\ UNCHANGED notSchedVars

(***************************************************************************)
(* Normalizer (backend/scraper/utils.py).  A title is a sequence of        *)
(* characters over a small alphabet: letters, an accented letter, an       *)
(* upper-case letter, punctuation, the space and the hyphen.               *)
(***************************************************************************)
\* unicodedata.normalize("NFKD", c) without its combining marks.
StripAccentsChar(c) == IF c = "e_acute" THEN "e" ELSE c

strip_accents(t) == [i \in 1 .. Len(t) |-> StripAccentsChar(t[i])]

KeepCase(c) == c

CasefoldChar(c) ==
    CASE c = "A" -> "a"
      [] c = "B" -> "b"
      [] c = "E" -> "e"
      [] OTHER -> c

casefold(t) == [i \in 1 .. Len(t) |-> CasefoldChar(t[i])]

IsSpace(c) == c = " "

\* \w (letters, digits and the underscore), \s or the hyphen: what
\* re.sub(r"[^\w\s-]", "", t) keeps.
IsWordSpaceOrHyphen(c) == c \in {"a", "b", "e", "e_acute", "A", "B", "E", "_", " ", "-"}

RemoveOtherChars(t) == SelectSeq(t, IsWordSpaceOrHyphen)

\* re.sub(r"\s+", " ", s.strip())
RECURSIVE norm_space(_)
norm_space(t) ==
    IF t = <<>> THEN <<>>
    ELSE IF IsSpace(t[1]) THEN norm_space(Tail(t))
    ELSE IF IsSpace(t[Len(t)]) THEN norm_space(SubSeq(t, 1, Len(t) - 1))
    ELSE IF Len(t) >= 3 /\ IsSpace(t[2]) /\ IsSpace(t[3])
         THEN norm_space(<<t[1]>> \o SubSeq(t, 3, Len(t)))
    ELSE <<t[1]>> \o norm_space(Tail(t))

normalize_title_key(title) ==
    IF title = <<>> THEN <<>>
    ELSE norm_space(RemoveOtherChars(casefold(strip_accents(title))))

(***************************************************************************)
(* run_for_museum (backend/scraper/orchestrator.py), detail_mode "full".   *)
(***************************************************************************)
\* Items extract_listing may return (ExhibitionListItem: title, href, date_text).
MaxItems == 3
\* The detail_concurrency argument of ExhibitionsOrchestrator.
DetailConcurrency == 2

ItemPool ==
    {[title |-> <<"a">>, href |-> "u1", date_text |-> "d0"],
     [title |-> <<"A", "!">>, href |-> "u2", date_text |-> Null],
     [title |-> <<"b">>, href |-> "u1", date_text |-> Null],
     [title |-> <<"b">>, href |-> "u3", date_text |-> "d0"],
     [title |-> <<>>, href |-> "u2", date_text |-> Null]}

ItemLists == UNION {[1 .. n -> ItemPool] : n \in 0 .. MaxItems}

\* An Exhibition (dataclass).  other_artists is a list; None and [] are both <<>>.
Exhibition(title, main_artist, other_artists, start_date, end_date, details, url) ==
    [title |-> title, main_artist |-> main_artist, other_artists |-> other_artists,
     start_date |-> start_date, end_date |-> end_date, details |-> details, url |-> url]

NoExhibition == Exhibition(<<>>, Null, <<>>, Null, Null, Null, Null)

\* What extract_detail may return for a page: a full record echoing the page's
\* url, a record with every optional field null or empty, a full record with
\* no url, a full record with the url of the first listing page.
DetailRecords(href) ==
    {Exhibition(<<"b">>, "artist", <<"other">>, "d1", "d2", "summary", href),
     Exhibition(<<"b">>, Null, <<>>, "", Null, Null, href),
     Exhibition(<<"b">>, "artist", <<"other">>, "d1", "d2", "summary", Null),
     Exhibition(<<"b">>, "artist", <<"other">>, "d1", "d2", "summary", "u1")}

\* Step 3: dedup by href, first occurrence wins.
RECURSIVE DedupByHref(_, _)
DedupByHref(its, seen) ==
    IF its = <<>> THEN <<>>
    ELSE IF its[1].href \in seen THEN DedupByHref(Tail(its), seen)
    ELSE <<its[1]>> \o DedupByHref(Tail(its), seen \cup {its[1].href})

\* Step 4, detail_mode "full": every dedup item.
SelectTodo(dedup) == dedup

\* Exhibition(title=it.title, url=it.href, start_date=it.date_text, ...)
BaseRecord(it) == Exhibition(it.title, Null, <<>>, it.date_text, Null, Null, it.href)

BaseRecords(dedup) == [k \in 1 .. Len(dedup) |-> BaseRecord(dedup[k])]

\* Python truthiness of a str-or-None field.
Truthy(v) == v # Null /\ v # ""

\* if ex.<field>: base.<field> = ex.<field>, for the five overlaid fields.
Overlay(base, ex) ==
    [base EXCEPT !.main_artist = IF Truthy(ex.main_artist) THEN ex.main_artist ELSE @,
                 !.other_artists = IF ex.other_artists # <<>> THEN ex.other_artists ELSE @,
                 !.start_date = IF Truthy(ex.start_date) THEN ex.start_date ELSE @,
                 !.end_date = IF Truthy(ex.end_date) THEN ex.end_date ELSE @,
                 !.details = IF Truthy(ex.details) THEN ex.details ELSE @]

\* Mutant of MergeDetails: the enriched records first, then the listing
\* records no detail record matched.
RECURSIVE MergeEnrichedFirst(_, _)
MergeEnrichedFirst(by_url, detail_results) ==
    IF detail_results = <<>> THEN by_url
    ELSE LET ex == detail_results[1]
             hit == {k \in 1 .. Len(by_url) : by_url[k].url = ex.url}
             rest == SelectSeq(by_url, LAMBDA b : b.url # ex.url)
         IN  IF hit = {}
             THEN <<ex>> \o MergeEnrichedFirst(by_url, Tail(detail_results))
             ELSE <<Overlay(by_url[CHOOSE k \in hit : TRUE], ex)>>
                     \o MergeEnrichedFirst(rest, Tail(detail_results))

\* by_url = {ex.url: ex for ex in base_records}, then for each detail record:
\* overlay it on the record of its url, or add it under its url.  by_url is
\* the dict in insertion order; results = list(by_url.values()).
RECURSIVE MergeDetails(_, _)
MergeDetails(by_url, detail_results) ==
    IF detail_results = <<>> THEN by_url
    ELSE LET ex == detail_results[1]
             hit == {k \in 1 .. Len(by_url) : by_url[k].url = ex.url}
         IN  IF hit = {}
             THEN MergeDetails(Append(by_url, ex), Tail(detail_results))
             ELSE MergeDetails([by_url EXCEPT ![CHOOSE k \in hit : TRUE] = Overlay(@, ex)],
                               Tail(detail_results))

\* Mutant of FinalDedup: titles_seen is never filled, only empty titles are skipped.
FinalDedupSeenNothing(recs, titles_seen) == SelectSeq(recs, LAMBDA ex : ex.title # <<>>)

\* Step 6: skip empty titles, keep the first record of each normalized title.
RECURSIVE FinalDedup(_, _)
FinalDedup(recs, titles_seen) ==
    IF recs = <<>> THEN <<>>
    ELSE LET ex == recs[1]
             key == normalize_title_key(ex.title)
         IN  IF ex.title = <<>> \/ key \in titles_seen
             THEN FinalDedup(Tail(recs), titles_seen)
             ELSE <<ex>> \o FinalDedup(Tail(recs), titles_seen \cup {key})

\* A detail task: waiting for the semaphore, fetching, extracting, done.
\* out is what the coroutine returned to gather: "none" (None), "exhibition"
\* (rec holds it) or "exception" (it raised).
NewDetailTask(it) == [href |-> it.href, pc |-> "wait", out |-> "pending", rec |-> NoExhibition]

\* fetched of gather(*coros, return_exceptions=True), then the loop that keeps
\* the Exhibition results: detail_results, in todo order.
DetailResults(ts) ==
    LET kept == SelectSeq(ts, LAMBDA t : t.out = "exhibition")
    IN  [k \in 1 .. Len(kept) |-> kept[k].rec]

\* Steps 5 (end) to 6 and the summary.
RunResult(dedup, bases, ts, timings) ==
    LET detail_results == DetailResults(ts)
        uniq == FinalDedup(MergeDetails(bases, detail_results), {})
        todo == SelectTodo(dedup)
        failed == IF Len(todo) - Len(detail_results) > 0
                  THEN Len(todo) - Len(detail_results) ELSE 0
    IN  [status |-> "returned",
         exhibitions |-> uniq,
         counts |-> [listings |-> Len(dedup), detail_candidates |-> Len(todo),
                     scraped |-> Len(detail_results), failed |-> failed,
                     unique |-> Len(uniq)],
         per_page |-> timings]

NoRunResult ==
    [status |-> "none", exhibitions |-> <<>>,
     counts |-> [listings |-> 0, detail_candidates |-> 0, scraped |-> 0, failed |-> 0,
                 unique |-> 0],
     per_page |-> <<>>]

RunRaised == [NoRunResult EXCEPT !.status = "raised"]

\* timings[href] = {"status": status, ...}: a new key goes last, a key already
\* present keeps its place.
SetTiming(timings, href, status) ==
    IF \E k \in 1 .. Len(timings) : timings[k].href = href
    THEN [k \in 1 .. Len(timings) |->
            IF timings[k].href = href THEN [href |-> href, status |-> status] ELSE timings[k]]
    ELSE Append(timings, [href |-> href, status |-> status])

\* Mutant of SemaphoreFree: the semaphore is never consulted.
SemaphoreIgnored(value) == TRUE

\* asyncio.Semaphore: acquire goes through while the value is positive.
SemaphoreFree(value) == value > 0

OrchInit ==
    /\ opc = "start"
    /\ items = <<>>
    /\ dedup_items = <<>>
    /\ base_records = <<>>
    /\ dtasks = <<>>
    /\ semaphore = DetailConcurrency
    /\ per_page_timings = <<>>
    /\ run_result = NoRunResult

\* _get_listing_bundle returned the merged bundle.
ListingBundle ==
    /\ opc = "start"
    /\ opc' = "extract_listing"
    /\ UNCHANGED <<items, dedup_items, base_records, dtasks, semaphore,
                   per_page_timings, run_result>>
    /\ UNCHANGED notOrchVars

\* condense_url of the listing url raised: run_for_museum raises.
ListingRaises ==
    /\ opc = "start"
    /\ opc' = "raised"
    /\ run_result' = RunRaised
    /\ UNCHANGED <<items, dedup_items, base_records, dtasks, semaphore, per_page_timings>>
    /\ UNCHANGED notOrchVars

\* extract_listing raised (the capability's call failed): run_for_museum raises.
ExtractListingRaises ==
    /\ opc = "extract_listing"
    /\ opc' = "raised"
    /\ run_result' = RunRaised
    /\ UNCHANGED <<items, dedup_items, base_records, dtasks, semaphore, per_page_timings>>
    /\ UNCHANGED notOrchVars

\* extract_listing returned its: steps 3 and 4, the base records, and the
\* detail coroutines handed to gather (none when todo is empty: steps 5 to 6
\* follow at once).
ExtractListing ==
    /\ opc = "extract_listing"
    /\ \E its \in ItemLists :
          LET dedup == DedupByHref(its, {})
              todo == SelectTodo(dedup)
              bases == BaseRecords(dedup)
          IN  /\ items' = its
              /\ dedup_items' = dedup
              /\ base_records' = bases
              /\ dtasks' = [k \in 1 .. Len(todo) |-> NewDetailTask(todo[k])]
              /\ IF todo = <<>>
                 THEN /\ opc' = "done"
                      /\ run_result' = RunResult(dedup, bases, <<>>, per_page_timings)
                 ELSE /\ opc' = "details"
                      /\ run_result' = run_result
    /\ UNCHANGED <<semaphore, per_page_timings>>
    /\ UNCHANGED notOrchVars

\* async with self.semaphore: entered.
Acquire ==
    /\ opc = "details"
    /\ \E i \in DOMAIN dtasks :
          /\ dtasks[i].pc = "wait"
          /\ SemaphoreFree(semaphore)
          /\ dtasks' = [dtasks EXCEPT ![i].pc = "fetch"]
    /\ semaphore' = semaphore - 1
    /\ UNCHANGED <<opc, items, dedup_items, base_records, per_page_timings, run_result>>
    /\ UNCHANGED notOrchVars

\* condense_url(href) returned the page's bundle.
DetailFetched ==
    /\ opc = "details"
    /\ \E i \in DOMAIN dtasks :
          /\ dtasks[i].pc = "fetch"
          /\ dtasks' = [dtasks EXCEPT ![i].pc = "llm"]
    /\ UNCHANGED <<opc, items, dedup_items, base_records, semaphore, per_page_timings,
                   run_result>>
    /\ UNCHANGED notOrchVars

\* condense_url(href) raised: timings[href] = fetch_error, return None.
DetailFetchFails ==
    /\ opc = "details"
    /\ \E i \in DOMAIN dtasks :
          /\ dtasks[i].pc = "fetch"
          /\ dtasks' = [dtasks EXCEPT ![i].pc = "done", ![i].out = "none"]
          /\ per_page_timings' = SetTiming(per_page_timings, dtasks[i].href, "fetch_error")
    /\ semaphore' = semaphore + 1
    /\ UNCHANGED <<opc, items, dedup_items, base_records, run_result>>
    /\ UNCHANGED notOrchVars

\* extract_detail raised: timings[href] = llm_error, return None.
DetailExtractFails ==
    /\ opc = "details"
    /\ \E i \in DOMAIN dtasks :
          /\ dtasks[i].pc = "llm"
          /\ dtasks' = [dtasks EXCEPT ![i].pc = "done", ![i].out = "none"]
          /\ per_page_timings' = SetTiming(per_page_timings, dtasks[i].href, "llm_error")
    /\ semaphore' = semaphore + 1
    /\ UNCHANGED <<opc, items, dedup_items, base_records, run_result>>
    /\ UNCHANGED notOrchVars

\* extract_detail returned a record: timings[href] = ok, return the Exhibition.
DetailExtracted ==
    /\ opc = "details"
    /\ \E i \in DOMAIN dtasks :
          /\ dtasks[i].pc = "llm"
          /\ \E rec \in DetailRecords(dtasks[i].href) :
                dtasks' = [dtasks EXCEPT ![i].pc = "done", ![i].out = "exhibition",
                                         ![i].rec = rec]
          /\ per_page_timings' = SetTiming(per_page_timings, dtasks[i].href, "ok")
    /\ semaphore' = semaphore + 1
    /\ UNCHANGED <<opc, items, dedup_items, base_records, run_result>>
    /\ UNCHANGED notOrchVars

\* extract_detail returned None (its validation fallback ends without a
\* return): timings[href] = ok, then rec.title raises AttributeError.
DetailExtractedNone ==
    /\ opc = "details"
    /\ \E i \in DOMAIN dtasks :
          /\ dtasks[i].pc = "llm"
          /\ dtasks' = [dtasks EXCEPT ![i].pc = "done", ![i].out = "exception"]
          /\ per_page_timings' = SetTiming(per_page_timings, dtasks[i].href, "ok")
    /\ semaphore' = semaphore + 1
    /\ UNCHANGED <<opc, items, dedup_items, base_records, run_result>>
    /\ UNCHANGED notOrchVars

\* Mutant of GatherComplete: gather returns with its first finished coroutine.
GatherFirstCompleted(ts) == \E i \in DOMAIN ts : ts[i].pc = "done"

\* await asyncio.gather(*coros, return_exceptions=True) returns when every
\* coroutine has returned or raised.
GatherComplete(ts) == \A i \in DOMAIN ts : ts[i].pc = "done"

\* gather returned: detail_results, merge, final dedup, summary, return.
GatherDetails ==
    /\ opc = "details"
    /\ GatherComplete(dtasks)
    /\ opc' = "done"
    /\ run_result' = RunResult(dedup_items, base_records, dtasks, per_page_timings)
    /\ UNCHANGED <<items, dedup_items, base_records, dtasks, semaphore, per_page_timings>>
    /\ UNCHANGED notOrchVars

(***************************************************************************)
(* PageCondenser.fetch_html (backend/scraper/condenser.py).  Several       *)
(* PageCondenser objects (one per scrape_museum) share the cache           *)
(* directory; each call is a coroutine that other calls interleave with    *)
(* at its awaits.  Writes to the cache directory succeed.                  *)
(***************************************************************************)
\* PageCondenser objects alive in the process.
NumCondensers == 2
\* Distinct urls fetched.
NumUrls == 2
\* fetch_html calls in one behaviour.
MaxFetches == 2

Condensers == 1 .. NumCondensers
Urls == 1 .. NumUrls

\* No cache file for the url; no html yet.
Missing == "missing"

\* r.text of a 200 response; drv.page_source ("thin" is shorter than 500 chars).
HttpBodies == {"", "page"}
BrowserPages == {"", "thin", "rendered"}

\* What client.get(url) can bring: a response with its status code, or a
\* transport error (status 0).  raise_for_status() raises on 4xx and 5xx; 404
\* and 410 stand for them.
Responses ==
    {[status |-> 200, text |-> h] : h \in HttpBodies}
        \cup {[status |-> st, text |-> ""] : st \in {0, 404, 410}}

RaiseForStatus(resp) == resp.status # 200

\* One attempt of a network tier, as history of the call.
Attempt(tier, ok, status) == [tier |-> tier, ok |-> ok, status |-> status]

\* A fetch_html call of condenser c.  had_entry is history: the url's cache
\* file existed when the call started.
NewCall(c, url, use_cache, had_entry) ==
    [condenser |-> c, url |-> url, use_cache |-> use_cache, pc |-> "http2",
     html |-> Missing, from_cache |-> FALSE, had_entry |-> had_entry, attempts |-> <<>>]

\* if use_cache and key.exists()
CacheHit(files, url, use_cache) == use_cache /\ files[url] # Missing

\* Mutant of CacheWrite: the html is never written.
CacheWriteDropped(files, url, html, use_cache) == files

\* if use_cache: key.write_text(html)
CacheWrite(files, url, html, use_cache) ==
    IF use_cache THEN [files EXCEPT ![url] = html] ELSE files

\* if use_cache and html: key.write_text(html)
CacheWriteBrowser(files, url, html, use_cache) ==
    IF use_cache /\ html # "" THEN [files EXCEPT ![url] = html] ELSE files

\* Mutant of TierAfter: the HTTP/1.1 retry is skipped.
TierAfterSkipping(tier) == "browser"

\* The except branches: HTTP/1.1 after the shared client, the browser after
\* HTTP/1.1.
TierAfter(tier) == IF tier = "http2" THEN "http1" ELSE "browser"

\* (not html) or (len(html) < 500)
IsThin(html) == html \in {"", "thin"}

NoDriver == [live |-> FALSE, headless |-> TRUE]

\* _selenium_fetch with a driver at hand: navigate; if the DOM is thin and the
\* mode is headless, quit, switch to visible, recreate (created says whether
\* that worked) and navigate once more.  Returns html, the driver's state and
\* whether it raised.
SeleniumFetch(drv, first, created, second) ==
    IF IsThin(first) /\ drv.headless
    THEN IF created
         THEN [html |-> second, driver |-> [live |-> TRUE, headless |-> FALSE], raised |-> FALSE]
         ELSE [html |-> Missing, driver |-> [live |-> FALSE, headless |-> FALSE], raised |-> TRUE]
    ELSE [html |-> first, driver |-> [drv EXCEPT !.live = TRUE], raised |-> FALSE]

Pending(c) == {i \in DOMAIN calls : calls[i].condenser = c /\ calls[i].pc \notin {"returned", "raised"}}

FetchInit ==
    /\ cache = [u \in Urls |-> Missing]
    /\ calls = <<>>
    /\ driver = [c \in Condensers |-> NoDriver]
    /\ closed = [c \in Condensers |-> FALSE]

\* fetch_html(url, use_cache) up to its first await: a cache hit returns the
\* file's text, a miss sends the request on the shared client.
StartFetch ==
    /\ Len(calls) < MaxFetches
    /\ \E c \in Condensers, url \in Urls, use_cache \in BOOLEAN :
          /\ ~closed[c]
          /\ LET call == NewCall(c, url, use_cache, cache[url] # Missing)
             IN  calls' = Append(calls,
                    IF CacheHit(cache, url, use_cache)
                    THEN [call EXCEPT !.pc = "returned", !.html = cache[url], !.from_cache = TRUE]
                    ELSE call)
    /\ UNCHANGED <<cache, driver, closed>>
    /\ UNCHANGED notFetchVars

\* The shared client's response passed raise_for_status: write the cache, return.
Http2Ok ==
    /\ \E i \in DOMAIN calls, resp \in Responses :
          /\ calls[i].pc = "http2"
          /\ ~RaiseForStatus(resp)
          /\ cache' = CacheWrite(cache, calls[i].url, resp.text, calls[i].use_cache)
          /\ calls' = [calls EXCEPT ![i].pc = "returned", ![i].html = resp.text,
                          ![i].attempts = Append(@, Attempt("http2", TRUE, resp.status))]
    /\ UNCHANGED <<driver, closed>>
    /\ UNCHANGED notFetchVars

\* client.get or raise_for_status raised: enter the HTTP/1.1 retry.
Http2Fails ==
    /\ \E i \in DOMAIN calls, resp \in Responses :
          /\ calls[i].pc = "http2"
          /\ RaiseForStatus(resp)
          /\ calls' = [calls EXCEPT ![i].pc = TierAfter("http2"),
                          ![i].attempts = Append(@, Attempt("http2", FALSE, resp.status))]
    /\ UNCHANGED <<cache, driver, closed>>
    /\ UNCHANGED notFetchVars

\* The HTTP/1.1 client's response passed raise_for_status: write the cache;
\* the return leaves the async with block (the client's __aexit__ is awaited).
Http1Ok ==
    /\ \E i \in DOMAIN calls, resp \in Responses :
          /\ calls[i].pc = "http1"
          /\ ~RaiseForStatus(resp)
          /\ cache' = CacheWrite(cache, calls[i].url, resp.text, calls[i].use_cache)
          /\ calls' = [calls EXCEPT ![i].pc = "http1_exit", ![i].html = resp.text,
                          ![i].attempts = Append(@, Attempt("http1", TRUE, resp.status))]
    /\ UNCHANGED <<driver, closed>>
    /\ UNCHANGED notFetchVars

\* The HTTP/1.1 client is closed: fetch_html returns.
Http1Exit ==
    /\ \E i \in DOMAIN calls :
          /\ calls[i].pc = "http1_exit"
          /\ calls' = [calls EXCEPT ![i].pc = "returned"]
    /\ UNCHANGED <<cache, driver, closed>>
    /\ UNCHANGED notFetchVars

\* The HTTP/1.1 retry raised: fall back to the browser.
Http1Fails ==
    /\ \E i \in DOMAIN calls, resp \in Responses :
          /\ calls[i].pc = "http1"
          /\ RaiseForStatus(resp)
          /\ calls' = [calls EXCEPT ![i].pc = TierAfter("http1"),
                          ![i].attempts = Append(@, Attempt("http1", FALSE, resp.status))]
    /\ UNCHANGED <<cache, driver, closed>>
    /\ UNCHANGED notFetchVars

\* _selenium_fetch (synchronous: no other coroutine runs meanwhile) with the
\* driver reused or created, then the cache write and the return; raises
\* when the visible driver cannot be created.
BrowserFetch ==
    /\ \E i \in DOMAIN calls, first \in BrowserPages, created \in BOOLEAN, second \in BrowserPages :
          /\ calls[i].pc = "browser"
          /\ LET c == calls[i].condenser
                 got == SeleniumFetch(driver[c], first, created, second)
             IN  /\ driver' = [driver EXCEPT ![c] = got.driver]
                 /\ IF got.raised
                    THEN /\ cache' = cache
                         /\ calls' = [calls EXCEPT ![i].pc = "raised",
                                 ![i].attempts = Append(@, Attempt("browser", FALSE, 0))]
                    ELSE /\ cache' = CacheWriteBrowser(cache, calls[i].url, got.html,
                                                       calls[i].use_cache)
                         /\ calls' = [calls EXCEPT ![i].pc = "returned", ![i].html = got.html,
                                 ![i].attempts = Append(@, Attempt("browser", TRUE, 0))]
    /\ UNCHANGED closed
    /\ UNCHANGED notFetchVars

\* _get_edge_driver raised (no driver could be created), or drv.get raised
\* other than a timeout on the driver at hand: fetch_html re-raises.
BrowserFails ==
    /\ \E i \in DOMAIN calls :
          /\ calls[i].pc = "browser"
          /\ calls' = [calls EXCEPT ![i].pc = "raised",
                          ![i].attempts = Append(@, Attempt("browser", FALSE, 0))]
    /\ UNCHANGED <<cache, driver, closed>>
    /\ UNCHANGED notFetchVars

\* close(): the client is closed and the driver, if any, quit.
Close ==
    /\ \E c \in Condensers :
          /\ ~closed[c]
          /\ Pending(c) = {}
          /\ \E i \in DOMAIN calls : calls[i].condenser = c
          /\ closed' = [closed EXCEPT ![c] = TRUE]
          /\ driver' = [driver EXCEPT ![c].live = FALSE]
    /\ UNCHANGED <<cache, calls>>
    /\ UNCHANGED notFetchVars

\* close(): client.aclose() raised, so the lines that quit the driver are not
\* reached; scrape_museum's finally logs the error and scrape_museum returns.
CloseRaises ==
    /\ \E c \in Condensers :
          /\ ~closed[c]
          /\ Pending(c) = {}
          /\ \E i \in DOMAIN calls : calls[i].condenser = c
          /\ closed' = [closed EXCEPT ![c] = TRUE]
    /\ UNCHANGED <<cache, calls, driver>>
    /\ UNCHANGED notFetchVars

(***************************************************************************)
(* save_exhibitions at row level (backend/scraper/models.py): the rows of  *)
(* the exhibitions table with their identity key (title, museum_id,        *)
(* start_date_iso).  A date text is the record of the fields it names, a   *)
(* missing field being NoField; the texts are single dates (no "to", no    *)
(* dash between spaces), which the range splitting leaves as they are.     *)
(***************************************************************************)
\* Exhibitions of the list.
MaxSaveItems == 2
\* Days of the month the current date takes.
MaxDay == 2
\* Saves of the list per museum.
MaxSaves == 2
\* Museums the list is saved for.
NumSaveMuseums == 2

SaveMuseums == 1 .. NumSaveMuseums

NoField == 0

\* start_date None: no text at all.
NoText == [day |-> NoField, month |-> NoField, year |-> NoField]

\* "9 October 2025" (or "09.10.2025", read day first) and "October 2025".
DateTexts ==
    { [day |-> 9, month |-> 10, year |-> 2025],
      [day |-> NoField, month |-> 10, year |-> 2025] }

NoIso == <<>>

\* dateutil's parse(candidate, fuzzy=True, dayfirst=True) is called without
\* default=, so a field the text does not name is taken from the current
\* date; it succeeds on every text of DateTexts, and the manual patterns
\* after it ("assume first of month") are not reached.
ParseSingleDate(s, now_day) ==
    IF s = NoText THEN NoIso
    ELSE <<s.year, s.month, IF s.day = NoField THEN now_day ELSE s.day>>

\* parse_date_to_iso(ex.start_date) under "if ex.start_date:"; with no text
\* the last attempt (332) has no string to try either.
StartIso(ex, now_day) == ParseSingleDate(ex.start_date, now_day)

IdentityKey(row) == <<row.title, row.museum_id, row.start_date_iso>>

\* UNIQUE(title, museum_id, start_date_iso): a NULL start_date_iso is distinct
\* from every other value, itself included, so it never conflicts.
Conflicts(rows, row) ==
    /\ row.start_date_iso # NoIso
    /\ \E i \in 1 .. Len(rows) : IdentityKey(rows[i]) = IdentityKey(row)

\* INSERT OR IGNORE
InsertOrIgnore(rows, row) == IF Conflicts(rows, row) THEN rows ELSE Append(rows, row)

NewExhibitionRow(ex, museum_id, now_day) ==
    [title |-> ex.title, museum_id |-> museum_id,
     start_date_iso |-> StartIso(ex, now_day), start_date_text |-> ex.start_date]

RECURSIVE InsertAll(_, _, _, _)
InsertAll(rows, exs, museum_id, now_day) ==
    IF exs = <<>> THEN rows
    ELSE InsertAll(InsertOrIgnore(rows, NewExhibitionRow(Head(exs), museum_id, now_day)),
                   Tail(exs), museum_id, now_day)

\* DELETE FROM exhibitions WHERE museum_id = ?
DeleteOf(rows, museum_id) == SelectSeq(rows, LAMBDA r : r.museum_id # museum_id)

\* The exhibitions whose iteration of the loop raises no exception; an
\* exception (a database error, say) is caught by "except Exception" and
\* the loop continues with the next exhibition.
RECURSIVE NotRaising(_, _, _)
NotRaising(exs, failing, i) ==
    IF i > Len(exs) THEN <<>>
    ELSE (IF i \in failing THEN <<>> ELSE <<exs[i]>>) \o NotRaising(exs, failing, i + 1)

\* The rows committed when the connection's "with" block ends; failing is
\* the set of list positions whose insertion raises.
save_exhibitions(rows, exs, museum_id, now_day, failing) ==
    IF exs = <<>> THEN rows
    ELSE InsertAll(DeleteOf(rows, museum_id), NotRaising(exs, failing, 1), museum_id, now_day)

MuseumRows(rows, museum_id) == SelectSeq(rows, LAMBDA r : r.museum_id = museum_id)

SaveItems == [title : Titles, start_date : DateTexts \cup {NoText}]

SaveLists == UNION {[1 .. n -> SaveItems] : n \in 0 .. MaxSaveItems}

SaveInit ==
    /\ today = 1
    /\ save_list \in SaveLists
    /\ ex_rows = <<>>
    /\ save_log = [m \in SaveMuseums |-> <<>>]

\* Midnight passes between two crawls.
NextDay ==
    /\ today < MaxDay
    /\ today' = today + 1
    /\ UNCHANGED <<save_list, ex_rows, save_log>>
    /\ UNCHANGED notSaveVars

\* A crawl of museum m yields the list and saves it.
SaveList ==
    \E m \in SaveMuseums, failing \in SUBSET (1 .. Len(save_list)) :
        /\ Len(save_log[m]) < MaxSaves
        /\ ex_rows' = save_exhibitions(ex_rows, save_list, m, today, failing)
        /\ save_log' = [save_log EXCEPT ![m] = Append(@, MuseumRows(ex_rows', m))]
        /\ UNCHANGED <<today, save_list>>
        /\ UNCHANGED notSaveVars

(***************************************************************************)
(* normalize_title_key applied to a pair of titles (utils.py).             *)
(***************************************************************************)
\* Characters of a title.
MaxTitleLen == 3

\* A letter, its upper-case and its accented form, the space, the hyphen,
\* the underscore and one more punctuation character.
TitleChars == {"e", "E", "e_acute", " ", "-", "_", "!"}

TitleStrings == UNION {[1 .. n -> TitleChars] : n \in 0 .. MaxTitleLen}

NoKeys == <<>>

KeyInit ==
    /\ T1 \in TitleStrings
    /\ T2 \in TitleStrings
    /\ keys = NoKeys

NormalizeTitleKeys ==
    /\ keys = NoKeys
    /\ keys' = <<normalize_title_key(T1), normalize_title_key(T2)>>
    /\ UNCHANGED <<T1, T2>>
    /\ UNCHANGED notKeyVars

(***************************************************************************)
(* get_or_create_artist and normalize_artist_name (models.py).  An artist  *)
(* name is a sequence of characters like a title; a row's id is its        *)
(* position in the table (AUTOINCREMENT, and no artist row is deleted).    *)
(***************************************************************************)
\* Characters of an artist name.
MaxNameLen == 2
\* get_or_create_artist calls.
MaxArtistCalls == 3

NameChars == {"e", "E", "e_acute", " ", "-"}

ArtistNames == UNION {[1 .. n -> NameChars] : n \in 0 .. MaxNameLen}

\* str.lower(); on the letters of the alphabet it is what casefold() is.
lower(t) == casefold(t)

IsWordOrSpace(c) == c \in {"a", "b", "e", "e_acute", "A", "B", "E", "_", " "}

\* re.sub(r'[^\w\s]', ' ', name)
PunctuationToSpace(t) == [i \in 1 .. Len(t) |-> IF IsWordOrSpace(t[i]) THEN t[i] ELSE " "]

\* str.strip()
RECURSIVE strip(_)
strip(t) ==
    IF t = <<>> THEN <<>>
    ELSE IF IsSpace(t[1]) THEN strip(Tail(t))
    ELSE IF IsSpace(t[Len(t)]) THEN strip(SubSeq(t, 1, Len(t) - 1))
    ELSE t

\* ' '.join(name.split()) trims and collapses whitespace, as norm_space does.
normalize_artist_name(name) ==
    IF name = <<>> THEN <<>>
    ELSE norm_space(PunctuationToSpace(lower(strip_accents(name))))

\* None
NoId == 0

SelectArtistNever(rows, normalized) == NoId

\* SELECT id FROM artists WHERE normalized_name = ?
SelectArtist(rows, normalized) ==
    IF \E i \in 1 .. Len(rows) : rows[i].normalized_name = normalized
    THEN CHOOSE i \in 1 .. Len(rows) : rows[i].normalized_name = normalized
    ELSE NoId

\* The table and the id returned: <<rows, id>>.
get_or_create_artist(rows, artist_name) ==
    IF artist_name = <<>> \/ strip(artist_name) = <<>> THEN <<rows, NoId>>
    ELSE LET name == strip(artist_name)
             normalized == normalize_artist_name(name)
             found == SelectArtist(rows, normalized)
         IN  IF normalized = <<>> THEN <<rows, NoId>>
             ELSE IF found # NoId THEN <<rows, found>>
             ELSE <<Append(rows, [name |-> name, normalized_name |-> normalized]),
                    Len(rows) + 1>>

ArtistInit ==
    /\ artists = <<>>
    /\ artist_calls = <<>>

GetOrCreateArtist ==
    \E artist_name \in ArtistNames :
        LET r == get_or_create_artist(artists, artist_name)
        IN  /\ Len(artist_calls) < MaxArtistCalls
            /\ artists' = r[1]
            /\ artist_calls' = Append(artist_calls, [name |-> artist_name, id |-> r[2]])
            /\ UNCHANGED notArtistVars

(***************************************************************************)
(* The registry tables at row level (models.py): countries, cities,        *)
(* museums and artists, written by import_museums_from_csv,                *)
(* save_exhibitions and update_museum_status.  A row's id is its position  *)
(* in its table (AUTOINCREMENT).                                           *)
(***************************************************************************)
\* Rows of a registry CSV.
MaxCsvRows == 2
\* Operations on the registry tables.
MaxRegistryOps == 3

\* The rows a registry CSV can hold: one museum name in two cities of the
\* same name in two countries, and another museum.
CsvRows ==
    { [museum |-> "Tate", city |-> "London", country |-> "UK"],
      [museum |-> "Tate", city |-> "London", country |-> "Canada"],
      [museum |-> "Prado", city |-> "Madrid", country |-> "Spain"],
      [museum |-> "Prado", city |-> "London", country |-> "UK"] }

CsvFiles == UNION {[1 .. n -> CsvRows] : n \in 0 .. MaxCsvRows}

\* What save_exhibitions passes on: museum_city and museum_country of the
\* first exhibition, or "Unknown".
SavedMuseums ==
    CsvRows \cup {[museum |-> "Tate", city |-> "Unknown", country |-> "Unknown"]}

\* main_artist of the first exhibition; <<>> is none.
SavedArtists == {<<>>, <<"e">>, <<"E", "-">>}

Tables == [countries |-> countries, cities |-> cities, museums |-> museum_rows]

\* The position of the first element of seq that satisfies Test, or NoId.
FirstWhere(seq, Test(_)) ==
    IF \E i \in 1 .. Len(seq) : Test(seq[i])
    THEN CHOOSE i \in 1 .. Len(seq) :
            Test(seq[i]) /\ \A j \in 1 .. i - 1 : ~Test(seq[j])
    ELSE NoId

\* <<tables, id>>
get_or_create_country(t, country_name) ==
    LET row == FirstWhere(t.countries, LAMBDA c : c = country_name)
    IN  IF row # NoId THEN <<t, row>>
        ELSE <<[t EXCEPT !.countries = Append(@, country_name)], Len(t.countries) + 1>>

get_or_create_city(t, city_name, country_name) ==
    LET co == get_or_create_country(t, country_name)
        t1 == co[1]
        country_id == co[2]
        row == FirstWhere(t1.cities, LAMBDA c : c.name = city_name /\ c.country_id = country_id)
    IN  IF row # NoId THEN <<t1, row>>
        ELSE <<[t1 EXCEPT !.cities = Append(@, [name |-> city_name, country_id |-> country_id])],
               Len(t1.cities) + 1>>

SelectMuseumNever(ms, museum_name, city_id) == NoId

\* SELECT id FROM museums WHERE name = ? AND city_id = ?
SelectMuseum(ms, museum_name, city_id) ==
    FirstWhere(ms, LAMBDA m : m.name = museum_name /\ m.city_id = city_id)

get_or_create_museum(t, museum_name, city_name, country_name) ==
    LET ci == get_or_create_city(t, city_name, country_name)
        t1 == ci[1]
        city_id == ci[2]
        row == SelectMuseum(t1.museums, museum_name, city_id)
    IN  IF row # NoId THEN <<t1, row>>
        ELSE <<[t1 EXCEPT !.museums =
                    Append(@, [name |-> museum_name, city_id |-> city_id,
                               scrape_status |-> "pending"])],
               Len(t1.museums) + 1>>

RECURSIVE import_museums_from_csv(_, _)
import_museums_from_csv(t, csv) ==
    IF csv = <<>> THEN t
    ELSE import_museums_from_csv(
             get_or_create_museum(t, Head(csv).museum, Head(csv).city, Head(csv).country)[1],
             Tail(csv))

\* UPDATE museums SET scrape_status = ? ... WHERE name = ?
update_museum_status(t, museum_name, status) ==
    [t EXCEPT !.museums =
        [i \in 1 .. Len(@) |->
            IF @[i].name = museum_name THEN [@[i] EXCEPT !.scrape_status = status] ELSE @[i]]]

NoCsv == <<>>

LogEntry(kind, csv, before, after) ==
    [kind |-> kind, csv |-> csv, before |-> before, after |-> after]

RegistryInit ==
    /\ countries = <<>>
    /\ cities = <<>>
    /\ museum_rows = <<>>
    /\ import_log = <<>>

SetTables(t) ==
    /\ countries' = t.countries
    /\ cities' = t.cities
    /\ museum_rows' = t.museums

\* --action sync-csv with some registry file.
ImportCsv ==
    \E csv \in CsvFiles :
        LET t == import_museums_from_csv(Tables, csv)
        IN  /\ Len(import_log) < MaxRegistryOps
            /\ SetTables(t)
            /\ import_log' = Append(import_log, LogEntry("import", csv, Tables, t))
            /\ UNCHANGED notRegistryVars

\* A succeeding crawl: save_exhibitions of a non-empty list gets or creates
\* the museum and the first exhibition's main artist, then sets the status.
SaveRegistry ==
    \E m \in SavedMuseums, a \in SavedArtists :
        LET t == get_or_create_museum(Tables, m.museum, m.city, m.country)[1]
            u == update_museum_status(t, m.museum, "success")
        IN  /\ Len(import_log) < MaxRegistryOps
            /\ SetTables(u)
            /\ artists' = get_or_create_artist(artists, a)[1]
            /\ import_log' = Append(import_log, LogEntry("save", NoCsv, Tables, u))
            /\ UNCHANGED <<artist_calls, schedVars, orchVars, fetchVars, saveVars, keyVars,
                           rangeVars, listingVars, bundleVars, dedupVars, todoVars, slowVars,
                           apiVars>>

\* A failing crawl: update_museum_status(name, "failed", error=...).
FailRegistry ==
    \E m \in SavedMuseums :
        LET u == update_museum_status(Tables, m.museum, "failed")
        IN  /\ Len(import_log) < MaxRegistryOps
            /\ SetTables(u)
            /\ import_log' = Append(import_log, LogEntry("failed", NoCsv, Tables, u))
            /\ UNCHANGED notRegistryVars

(***************************************************************************)
(* parse_date_range_text and _parse_single_date (models.py) on a range     *)
(* written with words, day first: "27 June - 8 November 2026".  The text   *)
(* is given by the two fragments its first range dash separates; a         *)
(* fragment is the record of the fields it names (NoField: not named) and  *)
(* of whether its day carries an ordinal suffix ("27th").                  *)
(***************************************************************************)
Fragment(day, ordinal, month, year) ==
    [day |-> day, ordinal |-> ordinal, month |-> month, year |-> year]

NoFragment == Fragment(NoField, FALSE, NoField, NoField)

FragmentsOf(d, m, y) ==
    {f \in [day : {NoField, d}, ordinal : BOOLEAN, month : {NoField, m}, year : {NoField, y}] :
        f.ordinal => f.day # NoField}

\* Left fragments around "27 June 2025", right ones around "8 November 2026".
LeftFragments == FragmentsOf(27, 6, 2025)
RightFragments == FragmentsOf(8, 11, 2026)

\* datetime.now() when the text is parsed: a day of the left or of the
\* right fragment's year.
CurrentDates == {[year |-> 2025, month |-> 12, day |-> 30], [year |-> 2026, month |-> 1, day |-> 2]}

\* re.search(r'(\d{1,2})\s+([A-Za-z]+)\s*(\d{4})', right): a plain day number,
\* a month name and a year; the month-first pattern before it does not match
\* a day-first fragment.
RightNamesFullDate(right) ==
    right.day # NoField /\ ~right.ordinal /\ right.month # NoField /\ right.year # NoField

RightYear(right) == IF RightNamesFullDate(right) THEN right.year ELSE NoField

RightMonth(right) == IF RightNamesFullDate(right) THEN right.month ELSE NoField

\* re.search(r"\b(\d{1,2})\b", s): a number of one or two digits that stands
\* alone; in "27th" no word boundary follows the digits.
HasPlainDay(f) == f.day # NoField /\ ~f.ordinal

\* re.search(r"[A-Za-z]+", s)
HasLetters(f) == f.month # NoField \/ f.ordinal

\* The candidate string handed to the parser (690-697).
Candidate(f, fallback_year, fallback_month) ==
    LET with_year ==
            IF fallback_year # NoField /\ HasPlainDay(f) /\ HasLetters(f) /\ f.year = NoField
            THEN [f EXCEPT !.year = fallback_year]
            ELSE f
    IN  IF fallback_month # NoField /\ fallback_year # NoField
           /\ HasPlainDay(f) /\ f.month = NoField /\ f.year = NoField
        THEN [f EXCEPT !.month = fallback_month, !.year = fallback_year]
        ELSE with_year

\* dateutil's parse(candidate, fuzzy=True, dayfirst=True) without default=:
\* an ordinal suffix is skipped, and a field the candidate does not name is
\* taken from the current date; a candidate that names nothing is no date,
\* and the manual patterns find nothing in it either.
parse_single_date(f, fallback_year, fallback_month, now) ==
    LET c == Candidate(f, fallback_year, fallback_month)
    IN  IF c.day = NoField /\ c.month = NoField /\ c.year = NoField THEN NoIso
        ELSE <<IF c.year = NoField THEN now.year ELSE c.year,
               IF c.month = NoField THEN now.month ELSE c.month,
               IF c.day = NoField THEN now.day ELSE c.day>>

\* <<start_iso, end_iso>> of a two-part text (762-798); the compact pattern
\* (788-796) applies only when the right fragment gave no date, and then the
\* text has no month name and year for it to match.
parse_date_range_text(text, now) ==
    <<parse_single_date(text.left, RightYear(text.right), RightMonth(text.right), now),
      parse_single_date(text.right, NoField, NoField, now)>>

NoRangeText == [left |-> NoFragment, right |-> NoFragment]

RangeTexts == [left : LeftFragments, right : RightFragments]

NoRangeResult == <<>>

RangeInit ==
    /\ range_text \in RangeTexts
    /\ range_now \in CurrentDates
    /\ range_result = NoRangeResult

ParseDateRangeText ==
    /\ range_result = NoRangeResult
    /\ range_result' = parse_date_range_text(range_text, range_now)
    /\ UNCHANGED <<range_text, range_now>>
    /\ UNCHANGED notRangeVars

(***************************************************************************)
(* extract_listing (backend/scraper/extractor.py) after the capability's   *)
(* call returned: the validation loop over data["items"].  A raw item is   *)
(* a JSON value: an object with or without the keys title and href (Null:  *)
(* the key is missing), or a value that is no object (a string).           *)
(***************************************************************************)
\* Raw items the capability returns.
MaxRawItems == 3

RawItem(json, title, href) == [json |-> json, title |-> title, href |-> href]

RawItemPool ==
    {RawItem("object", t, h) : t \in {Null, "t1"}, h \in {Null, "u1", "u2"}}
        \cup {RawItem("string", Null, Null)}

RawItemLists == UNION {[1 .. n -> RawItemPool] : n \in 0 .. MaxRawItems}

\* ExhibitionListItem(**it) on a value that is no mapping raises TypeError.
IsMapping(it) == it.json = "object"

\* ExhibitionListItem(**it) raises ValidationError: a required field is missing.
FailsValidation(it) == it.title = Null \/ it.href = Null

ListItem(it) == [title |-> it.title, href |-> it.href]

ListingReturned(its) == [status |-> "returned", items |-> its]

\* An exception other than ValidationError leaves the loop and the call.
ListingRaised == [status |-> "raised", items |-> <<>>]

NoListingOutcome == [status |-> "none", items |-> <<>>]

RECURSIVE ValidateItems(_, _)
ValidateItems(raw, acc) ==
    IF raw = <<>> THEN ListingReturned(acc)
    ELSE IF ~IsMapping(Head(raw)) THEN ListingRaised
    ELSE IF FailsValidation(Head(raw)) THEN ValidateItems(Tail(raw), acc)
    ELSE ValidateItems(Tail(raw), Append(acc, ListItem(Head(raw))))

extract_listing(raw) == ValidateItems(raw, <<>>)

ListingInit ==
    /\ raw_items \in RawItemLists
    /\ listing_outcome = NoListingOutcome

ValidateListing ==
    /\ listing_outcome = NoListingOutcome
    /\ listing_outcome' = extract_listing(raw_items)
    /\ UNCHANGED raw_items
    /\ UNCHANGED notListingVars

(***************************************************************************)
(* _get_listing_bundle (backend/scraper/orchestrator.py).  A bundle is     *)
(* what condense_url returns: the number of characters of the page's text  *)
(* (at most limit_text_chars) and its anchors, each with its href and its  *)
(* pager flag.                                                             *)
(***************************************************************************)
\* Anchors of the base listing page.
MaxAnchors == 4

\* pagers[:3]
PagerCap == 3
\* "\n".join(text_chunks)[:16000], and condense_url's limit_text_chars.
TextLimit == 16000

ListingUrl == "listing"

Anchor(href, pager) == [href |-> href, pager |-> pager]

BaseAnchorPool == {Anchor("p1", TRUE), Anchor("p2", TRUE), Anchor("x", FALSE)}

BaseAnchorLists == UNION {[1 .. n -> BaseAnchorPool] : n \in 0 .. MaxAnchors}

\* A followed page has its own anchors, a pager among them or not.
PageAnchorLists == {<<>>, <<Anchor("y", FALSE), Anchor("p3", TRUE)>>}

TextChars == {0, 9000, TextLimit}

Bundle(text_chars, anchors) == [text_chars |-> text_chars, anchors |-> anchors]

NoBundle == Bundle(0, <<>>)

\* [a for a in base_bundle["anchors"] if a.get("pager")]
Pagers(base_bundle) == SelectSeq(base_bundle.anchors, LAMBDA a : a.pager)

AllPagers(pagers) == pagers

FollowedPagers(pagers) == SubSeq(pagers, 1, Min(PagerCap, Len(pagers)))

RECURSIVE MergedAnchors(_)
MergedAnchors(bs) ==
    IF bs = <<>> THEN <<>> ELSE Head(bs).anchors \o MergedAnchors(Tail(bs))

\* len("\n".join(text_chunks)): the chunks and one newline between two.
RECURSIVE JoinedChars(_)
JoinedChars(bs) ==
    IF bs = <<>> THEN 0
    ELSE IF Len(bs) = 1 THEN bs[1].text_chars
    ELSE bs[1].text_chars + 1 + JoinedChars(Tail(bs))

Merged(bs) == Bundle(Min(JoinedChars(bs), TextLimit), MergedAnchors(bs))

BundleInit ==
    /\ lpc = "start"
    /\ follow_pagination \in BOOLEAN
    /\ bundles = <<>>
    /\ pager_index = 0
    /\ fetched = <<>>
    /\ merged = NoBundle

\* condense_url(museum_url) returned the base bundle.
BaseBundle ==
    /\ lpc = "start"
    /\ \E n \in TextChars, anchors \in BaseAnchorLists :
          bundles' = <<Bundle(n, anchors)>>
    /\ fetched' = <<ListingUrl>>
    /\ lpc' = "pagination"
    /\ UNCHANGED <<follow_pagination, pager_index, merged>>
    /\ UNCHANGED notBundleVars

\* condense_url(museum_url) raised: so does _get_listing_bundle.
BaseBundleRaises ==
    /\ lpc = "start"
    /\ fetched' = <<ListingUrl>>
    /\ lpc' = "raised"
    /\ UNCHANGED <<follow_pagination, bundles, pager_index, merged>>
    /\ UNCHANGED notBundleVars

PagersToFollow ==
    IF follow_pagination THEN FollowedPagers(Pagers(bundles[1])) ELSE <<>>

\* condense_url of the next pager returned a bundle.
PaginationBundle ==
    /\ lpc = "pagination"
    /\ pager_index < Len(PagersToFollow)
    /\ \E n \in TextChars, anchors \in PageAnchorLists :
          bundles' = Append(bundles, Bundle(n, anchors))
    /\ fetched' = Append(fetched, PagersToFollow[pager_index + 1].href)
    /\ pager_index' = pager_index + 1
    /\ UNCHANGED <<lpc, follow_pagination, merged>>
    /\ UNCHANGED notBundleVars

\* condense_url of the next pager raised: except Exception, continue.
PaginationFails ==
    /\ lpc = "pagination"
    /\ pager_index < Len(PagersToFollow)
    /\ fetched' = Append(fetched, PagersToFollow[pager_index + 1].href)
    /\ pager_index' = pager_index + 1
    /\ UNCHANGED <<lpc, follow_pagination, bundles, merged>>
    /\ UNCHANGED notBundleVars

\* The loop is over: merge and return.
MergeBundles ==
    /\ lpc = "pagination"
    /\ pager_index = Len(PagersToFollow)
    /\ merged' = Merged(bundles)
    /\ lpc' = "returned"
    /\ UNCHANGED <<follow_pagination, bundles, pager_index, fetched>>
    /\ UNCHANGED notBundleVars

(***************************************************************************)
(* Step 6 of run_for_museum on its own: the final dedup applied to a list  *)
(* of merged records.                                                      *)
(***************************************************************************)
\* Merged records handed to the final dedup.
MaxResults == 3

\* Titles: two of punctuation only, a letter and its upper case, and "".
DedupTitles == {<<"!">>, <<"!", "!">>, <<"e">>, <<"E">>, <<>>}

TitledRecord(title) == Exhibition(title, Null, <<>>, Null, Null, Null, Null)

ResultLists == UNION {[1 .. n -> {TitledRecord(t) : t \in DedupTitles}] : n \in 0 .. MaxResults}

DedupInit ==
    /\ merge_results \in ResultLists
    /\ uniq_kept = <<>>
    /\ dedup_done = FALSE

FinalDedupStep ==
    /\ ~dedup_done
    /\ uniq_kept' = FinalDedup(merge_results, {})
    /\ dedup_done' = TRUE
    /\ UNCHANGED merge_results
    /\ UNCHANGED notDedupVars

DedupIdle == merge_results = <<>> /\ DedupInit

(***************************************************************************)
(* Steps 4 and 5 (start) of run_for_museum with its detail_mode: which     *)
(* deduplicated items get a detail coroutine.  Items are numbered by their *)
(* href, which the dedup by href made distinct.                            *)
(***************************************************************************)
\* Deduplicated items of a listing.
MaxCandidates == 3
\* Values of the light_cap argument.
MaxLightCap == 2

DetailModes == {"full", "light", "off"}

\* Listing titles of one, two and three words.
CandidateTitles == {<<"e">>, <<"e", " ", "e">>, <<"e", " ", "e", " ", "E">>}

\* date_text: None, empty, or a text.
CandidateDates == {Null, "", "d0"}

CandidateLists ==
    UNION {[1 .. n -> [title : CandidateTitles, date_text : CandidateDates]] : n \in 0 .. MaxCandidates}

\* len(title.split()): the number of maximal runs of non-space characters.
SplitLen(t) ==
    Cardinality({i \in 1 .. Len(t) : ~IsSpace(t[i]) /\ (i = 1 \/ IsSpace(t[i - 1]))})

\* not it.date_text or len(it.title.split()) <= 2
IsLightCandidate(it) == ~Truthy(it.date_text) \/ SplitLen(it.title) <= 2

SelectTodoUncapped(dedup, mode, cap) ==
    IF mode = "off" THEN <<>>
    ELSE IF mode = "light" THEN SelectSeq(dedup, IsLightCandidate)
    ELSE dedup

\* Step 4 for every detail_mode.
SelectTodoFor(dedup, mode, cap) ==
    IF mode = "off" THEN <<>>
    ELSE IF mode = "light"
         THEN LET candidates == SelectSeq(dedup, IsLightCandidate)
              IN  SubSeq(candidates, 1, Min(cap, Len(candidates)))
    ELSE dedup

\* if self.detail_mode != "off" and todo: one coroutine per selected item.
DetailCoros(selected, mode) ==
    IF mode # "off" /\ selected # <<>>
    THEN [k \in 1 .. Len(selected) |-> selected[k].href]
    ELSE <<>>

TodoInit ==
    /\ detail_mode \in DetailModes
    /\ light_cap \in 1 .. MaxLightCap
    /\ \E shapes \in CandidateLists :
          candidates_in = [i \in 1 .. Len(shapes) |->
                              [title |-> shapes[i].title, href |-> i,
                               date_text |-> shapes[i].date_text]]
    /\ todo_sel = <<>>
    /\ detail_coros = <<>>
    /\ todo_done = FALSE

SelectDetails ==
    /\ ~todo_done
    /\ todo_sel' = SelectTodoFor(candidates_in, detail_mode, light_cap)
    /\ detail_coros' = DetailCoros(todo_sel', detail_mode)
    /\ todo_done' = TRUE
    /\ UNCHANGED <<detail_mode, light_cap, candidates_in>>
    /\ UNCHANGED notTodoVars

TodoIdle ==
    /\ detail_mode = "full"
    /\ light_cap = 1
    /\ candidates_in = <<>>
    /\ todo_sel = <<>>
    /\ detail_coros = <<>>
    /\ todo_done = FALSE

(***************************************************************************)
(* A batch of two sites; a detail page of one site never responds.  Every  *)
(* request of fetch_html carries the condenser's timeout (httpx            *)
(* timeout=self.timeout on both clients), and the browser's navigation     *)
(* carries a page-load timeout whose TimeoutException _navigate_and_wait   *)
(* catches, keeping the DOM at hand.  The scheduler's detail_concurrency   *)
(* of 12 admits every task of the model at once.                           *)
(***************************************************************************)
\* Detail pages of the site.
NumSlowPages == 2

SlowPages == 1 .. NumSlowPages

\* The page that never responds.
Unresponsive == 1

\* drv.page_source after window.stop() on a navigation nothing answered.
BlankPages == {"", "thin"}

PageSources(p) == IF p = Unresponsive THEN BlankPages ELSE BrowserPages

\* timings[href] is not written yet.
NoStatus == "none"

SlowInit ==
    /\ page_tasks = [p \in SlowPages |-> [pc |-> "http2", status |-> NoStatus]]
    /\ slow_driver = NoDriver
    /\ site_pc = "details"
    /\ peer_pc = "orch"
    /\ batch_pc = "gather"

\* client.get / c1.get returned a 200 response: condense_url goes on to the
\* capability.  Not for the page that never responds.
PageAnswered ==
    /\ \E p \in SlowPages \ {Unresponsive} :
          /\ page_tasks[p].pc \in {"http2", "http1"}
          /\ page_tasks' = [page_tasks EXCEPT ![p].pc = "llm"]
    /\ UNCHANGED <<slow_driver, site_pc, peer_pc, batch_pc>>
    /\ UNCHANGED notSlowVars

\* client.get / c1.get raised: an error response, or (the page that never
\* responds) httpx's timeout after self.timeout seconds.  The next tier.
PageRequestFails ==
    /\ \E p \in SlowPages :
          /\ page_tasks[p].pc \in {"http2", "http1"}
          /\ page_tasks' = [page_tasks EXCEPT ![p].pc = TierAfter(page_tasks[p].pc)]
    /\ UNCHANGED <<slow_driver, site_pc, peer_pc, batch_pc>>
    /\ UNCHANGED notSlowVars

\* _selenium_fetch returned (a navigation that timed out keeps the DOM at
\* hand), or raised because the visible driver could not be created.
PageBrowserFetch ==
    /\ \E p \in SlowPages, created \in BOOLEAN :
          \E first \in PageSources(p), second \in PageSources(p) :
              /\ page_tasks[p].pc = "browser"
              /\ LET got == SeleniumFetch(slow_driver, first, created, second)
                 IN  /\ slow_driver' = got.driver
                     /\ page_tasks' =
                            IF got.raised
                            THEN [page_tasks EXCEPT ![p] = [pc |-> "done", status |-> "fetch_error"]]
                            ELSE [page_tasks EXCEPT ![p].pc = "llm"]
    /\ UNCHANGED <<site_pc, peer_pc, batch_pc>>
    /\ UNCHANGED notSlowVars

\* _get_edge_driver raised: fetch_html re-raises, timings[href] = fetch_error.
PageBrowserFails ==
    /\ \E p \in SlowPages :
          /\ page_tasks[p].pc = "browser"
          /\ ~slow_driver.live
          /\ page_tasks' = [page_tasks EXCEPT ![p] = [pc |-> "done", status |-> "fetch_error"]]
    /\ UNCHANGED <<slow_driver, site_pc, peer_pc, batch_pc>>
    /\ UNCHANGED notSlowVars

\* extract_detail returned (timings[href] = ok) or raised (llm_error).
PageExtracted ==
    /\ \E p \in SlowPages, st \in {"ok", "llm_error"} :
          /\ page_tasks[p].pc = "llm"
          /\ page_tasks' = [page_tasks EXCEPT ![p] = [pc |-> "done", status |-> st]]
    /\ UNCHANGED <<slow_driver, site_pc, peer_pc, batch_pc>>
    /\ UNCHANGED notSlowVars

\* gather over the detail tasks returned; merge, save, close, return.
SiteReturns ==
    /\ site_pc = "details"
    /\ \A p \in SlowPages : page_tasks[p].pc = "done"
    /\ site_pc' = "returned"
    /\ slow_driver' = [slow_driver EXCEPT !.live = FALSE]
    /\ UNCHANGED <<page_tasks, peer_pc, batch_pc>>
    /\ UNCHANGED notSlowVars

\* scrape_museum of the other site of the batch returned.
PeerReturns ==
    /\ peer_pc = "orch"
    /\ peer_pc' = "returned"
    /\ UNCHANGED <<page_tasks, slow_driver, site_pc, batch_pc>>
    /\ UNCHANGED notSlowVars

\* gather over the batch returned: the results are appended, the next batch.
BatchReturns ==
    /\ batch_pc = "gather"
    /\ site_pc = "returned"
    /\ peer_pc = "returned"
    /\ batch_pc' = "next_batch"
    /\ UNCHANGED <<page_tasks, slow_driver, site_pc, peer_pc>>
    /\ UNCHANGED notSlowVars

(***************************************************************************)
(* The trigger surface (backend/api.py).  Each POST adds a background task *)
(* that awaits scrape_specific_museum or scrape_outdated_museums of the    *)
(* one module-level scheduler; the tasks of different requests run in the  *)
(* same event loop and interleave at their awaits.  They work on the       *)
(* museums and exhibitions tables of the store.                            *)
(***************************************************************************)
\* POST requests in one behaviour.
MaxTriggers == 2

\* What the trigger steps leave alone.
notStoreVars ==
    <<clock, spc, op, nops, museums_to_scrape, bi, tasks, results, ret, orch_raised,
      crawl_history, orchVars, fetchVars, saveVars, keyVars, artistVars, registryVars,
      rangeVars, listingVars, bundleVars, dedupVars, todoVars, slowVars>>

\* A scrape_museum coroutine at its await of run_for_museum.
ApiCrawl(s) == [site |-> s, pc |-> "orch"]

ApiCrawls(sites) == [j \in 1 .. Len(sites) |-> ApiCrawl(sites[j])]

\* background_tasks.add_task(...): the task has not started yet.
ApiTask(kind, museum_name) ==
    [kind |-> kind, name |-> museum_name, pc |-> "queued", due |-> <<>>, bi |-> 0,
     batch |-> <<>>]

ApiInit == api_tasks = <<>>

\* POST /api/scrape/museum/{museum_name}
PostScrapeMuseum ==
    /\ Len(api_tasks) < MaxTriggers
    /\ \E museum_name \in Names :
          api_tasks' = Append(api_tasks, ApiTask("specific", museum_name))
    /\ UNCHANGED <<museums, exhibitions>>
    /\ UNCHANGED notStoreVars

\* POST /api/scrape/outdated
PostScrapeOutdated ==
    /\ Len(api_tasks) < MaxTriggers
    /\ api_tasks' = Append(api_tasks, ApiTask("outdated", UnknownName))
    /\ UNCHANGED <<museums, exhibitions>>
    /\ UNCHANGED notStoreVars

\* The background task runs scrape_specific_museum up to its await of
\* scrape_museum, or to its return when no museum has the name.
ApiStartSpecific ==
    /\ \E t \in DOMAIN api_tasks :
          /\ api_tasks[t].pc = "queued"
          /\ api_tasks[t].kind = "specific"
          /\ LET all == GetMuseumsToScrape(museums, clock, AllDays)
                 hits == {k \in 1 .. Len(all) : MuseumName(all[k]) = api_tasks[t].name}
             IN  api_tasks' =
                    IF hits = {}
                    THEN [api_tasks EXCEPT ![t].pc = "done"]
                    ELSE [api_tasks EXCEPT
                            ![t].pc = "gather",
                            ![t].batch = ApiCrawls(<<all[CHOOSE k \in hits : \A l \in hits : k <= l]>>)]
    /\ UNCHANGED <<museums, exhibitions>>
    /\ UNCHANGED notStoreVars

\* The background task runs scrape_outdated_museums up to its first gather,
\* or to its return when no site is due.
ApiStartOutdated ==
    /\ \E t \in DOMAIN api_tasks :
          /\ api_tasks[t].pc = "queued"
          /\ api_tasks[t].kind = "outdated"
          /\ LET synced == ImportMuseumsFromCsv(museums)
                 due == GetMuseumsToScrape(synced, clock, DaysUntilRescrape)
             IN  /\ museums' = synced
                 /\ api_tasks' =
                       IF due = <<>>
                       THEN [api_tasks EXCEPT ![t].pc = "done"]
                       ELSE [api_tasks EXCEPT ![t].pc = "gather", ![t].due = due, ![t].bi = 1,
                                              ![t].batch = ApiCrawls(Batch(due, 1))]
    /\ UNCHANGED exhibitions
    /\ UNCHANGED notStoreVars

\* run_for_museum returned exs to a scrape_museum of a background task.
ApiCrawlReturns ==
    /\ \E t \in DOMAIN api_tasks :
          \E j \in DOMAIN api_tasks[t].batch, exs \in CrawlResults :
              /\ api_tasks[t].batch[j].pc = "orch"
              /\ LET db == ScrapeMuseumSuccess(Db, clock, api_tasks[t].batch[j].site, exs)
                 IN  /\ museums' = db.museums
                     /\ exhibitions' = db.exhibitions
              /\ api_tasks' = [api_tasks EXCEPT ![t].batch[j].pc = "done"]
    /\ UNCHANGED notStoreVars

\* run_for_museum raised in a scrape_museum of a background task.
ApiCrawlRaises ==
    /\ \E t \in DOMAIN api_tasks :
          \E j \in DOMAIN api_tasks[t].batch, e \in Errors :
              /\ api_tasks[t].batch[j].pc = "orch"
              /\ LET db == ScrapeMuseumFailure(Db, clock, api_tasks[t].batch[j].site, e)
                 IN  /\ museums' = db.museums
                     /\ exhibitions' = db.exhibitions
              /\ api_tasks' = [api_tasks EXCEPT ![t].batch[j].pc = "done"]
    /\ UNCHANGED notStoreVars

\* The awaited scrape_museum, or the gather over the batch, returned.
ApiGatherDone ==
    /\ \E t \in DOMAIN api_tasks :
          /\ api_tasks[t].pc = "gather"
          /\ \A j \in DOMAIN api_tasks[t].batch : api_tasks[t].batch[j].pc = "done"
          /\ api_tasks' =
                IF /\ api_tasks[t].kind = "outdated"
                   /\ api_tasks[t].bi + MaxConcurrent <= Len(api_tasks[t].due)
                THEN [api_tasks EXCEPT ![t].pc = "sleep"]
                ELSE [api_tasks EXCEPT ![t].pc = "done", ![t].batch = <<>>]
    /\ UNCHANGED <<museums, exhibitions>>
    /\ UNCHANGED notStoreVars

\* await asyncio.sleep(2) is over: the next batch.
ApiSleepDone ==
    /\ \E t \in DOMAIN api_tasks :
          /\ api_tasks[t].pc = "sleep"
          /\ api_tasks' =
                [api_tasks EXCEPT
                    ![t].pc = "gather",
                    ![t].bi = @ + MaxConcurrent,
                    ![t].batch = ApiCrawls(Batch(api_tasks[t].due,
                                                 api_tasks[t].bi + MaxConcurrent))]
    /\ UNCHANGED <<museums, exhibitions>>
    /\ UNCHANGED notStoreVars

\* Each specification draws the inputs of its own operation in its initial
\* states; the other operations are idle, with a fixed input.
SaveIdle == save_list = <<>> /\ SaveInit

KeyIdle == T1 = <<>> /\ T2 = <<>> /\ KeyInit

RangeIdle ==
    /\ range_text = [left |-> Fragment(27, FALSE, 6, 2025), right |-> Fragment(8, FALSE, 11, 2026)]
    /\ range_now = [year |-> 2025, month |-> 12, day |-> 30]
    /\ RangeInit

ListingIdle == raw_items = <<>> /\ ListingInit

BundleIdle == follow_pagination = TRUE /\ BundleInit

ProcessInit ==
    SchedInit /\ OrchInit /\ FetchInit /\ ArtistInit /\ RegistryInit /\ BundleIdle
    /\ DedupIdle /\ TodoIdle /\ SlowInit /\ ApiInit

InitSave == ProcessInit /\ SaveInit /\ KeyIdle /\ RangeIdle /\ ListingIdle

InitKey == ProcessInit /\ SaveIdle /\ KeyInit /\ RangeIdle /\ ListingIdle

InitRange == ProcessInit /\ SaveIdle /\ KeyIdle /\ RangeInit /\ ListingIdle

InitListing == ProcessInit /\ SaveIdle /\ KeyIdle /\ RangeIdle /\ ListingInit

InitBundle ==
    /\ SchedInit /\ OrchInit /\ FetchInit /\ ArtistInit /\ RegistryInit /\ BundleInit
    /\ DedupIdle /\ TodoIdle /\ SlowInit /\ ApiInit /\ SaveIdle /\ KeyIdle /\ RangeIdle /\ ListingIdle

InitDedup ==
    /\ SchedInit /\ OrchInit /\ FetchInit /\ ArtistInit /\ RegistryInit /\ BundleIdle
    /\ DedupInit /\ TodoIdle /\ SlowInit /\ ApiInit /\ SaveIdle /\ KeyIdle /\ RangeIdle /\ ListingIdle

InitTodo ==
    /\ SchedInit /\ OrchInit /\ FetchInit /\ ArtistInit /\ RegistryInit /\ BundleIdle
    /\ DedupIdle /\ TodoInit /\ SlowInit /\ ApiInit /\ SaveIdle /\ KeyIdle /\ RangeIdle /\ ListingIdle

Init == ProcessInit /\ SaveIdle /\ KeyIdle /\ RangeIdle /\ ListingIdle

Next ==
    \/ Tick
    \/ SyncCsv
    \/ StartOutdated
    \/ OrchestratorReturns
    \/ OrchestratorRaises
    \/ CloseCondenser
    \/ GatherDone
    \/ SleepDone
    \/ StartSpecific
    \/ SpecificDone

Spec == Init /\ [][Next]_vars

NextOrch ==
    \/ ListingBundle
    \/ ListingRaises
    \/ ExtractListingRaises
    \/ ExtractListing
    \/ Acquire
    \/ DetailFetched
    \/ DetailFetchFails
    \/ DetailExtractFails
    \/ DetailExtracted
    \/ DetailExtractedNone
    \/ GatherDetails

SpecOrch == Init /\ [][NextOrch]_vars

NextFetch ==
    \/ StartFetch
    \/ Http2Ok
    \/ Http2Fails
    \/ Http1Ok
    \/ Http1Exit
    \/ Http1Fails
    \/ BrowserFetch
    \/ BrowserFails
    \/ Close
    \/ CloseRaises

SpecFetch == Init /\ [][NextFetch]_vars

NextSave ==
    \/ NextDay
    \/ SaveList

SpecSave == InitSave /\ [][NextSave]_vars

NextKey == NormalizeTitleKeys

SpecKey == InitKey /\ [][NextKey]_vars

NextArtist == GetOrCreateArtist

SpecArtist == Init /\ [][NextArtist]_vars

NextRegistry ==
    \/ ImportCsv
    \/ SaveRegistry
    \/ FailRegistry

SpecRegistry == Init /\ [][NextRegistry]_vars

NextRange == ParseDateRangeText

SpecRange == InitRange /\ [][NextRange]_vars

NextListing == ValidateListing

SpecListing == InitListing /\ [][NextListing]_vars

NextBundle ==
    \/ BaseBundle
    \/ BaseBundleRaises
    \/ PaginationBundle
    \/ PaginationFails
    \/ MergeBundles

SpecBundle == InitBundle /\ [][NextBundle]_vars

NextDedup == FinalDedupStep

SpecDedup == InitDedup /\ [][NextDedup]_vars

NextTodo == SelectDetails

SpecTodo == InitTodo /\ [][NextTodo]_vars

NextSlow ==
    \/ PageAnswered
    \/ PageRequestFails
    \/ PageBrowserFetch
    \/ PageBrowserFails
    \/ PageExtracted
    \/ SiteReturns
    \/ PeerReturns
    \/ BatchReturns

NextApi ==
    \/ PostScrapeMuseum
    \/ PostScrapeOutdated
    \/ ApiStartSpecific
    \/ ApiStartOutdated
    \/ ApiCrawlReturns
    \/ ApiCrawlRaises
    \/ ApiGatherDone
    \/ ApiSleepDone

SpecApi == Init /\ [][NextApi]_vars

\* The event loop runs every coroutine that can go on, and every timeout fires.
SpecSlow == Init /\ [][NextSlow]_vars /\ WF_vars(NextSlow)

(***************************************************************************)
(* Claims about the scheduler and the store (Spec).                        *)
(***************************************************************************)
SetOf(seq) == {seq[k] : k \in 1 .. Len(seq)}

RowsOf(museum_id, exs) == {[museum_id |-> museum_id, title |-> exs[i]] : i \in 1 .. Len(exs)}

\* C1: when scrape_outdated_museums returns, results hold one entry per due
\* site, in due order: a failed entry naming the museum and its error for each
\* site whose orchestration raised, a success entry for each other site.
C1_BatchIsolation ==
    (op.kind = "outdated" /\ spc = "returned" /\ museums_to_scrape # <<>>) =>
        /\ ret.status = "complete"
        /\ Len(ret.results) = Len(museums_to_scrape)
        /\ \A k \in 1 .. Len(museums_to_scrape) :
              LET s == museums_to_scrape[k]
                  r == ret.results[k]
              IN  /\ r.museum = MuseumName(s)
                  /\ IF s \in orch_raised
                     THEN r.status = "failed" /\ r.error \in Errors
                     ELSE r.status = "success" /\ r.error = Null

\* A batch of two concurrent sites, the first raised and the second succeeded.
C1_Witness ==
    /\ op.kind = "outdated" /\ spc = "returned" /\ ret.status = "complete"
    /\ MaxConcurrent >= 2 /\ Len(museums_to_scrape) >= 2
    /\ museums_to_scrape[1] \in orch_raised
    /\ museums_to_scrape[2] \notin orch_raised

\* C2: the step in which scrape_museum takes its failure path sets the site's
\* status to failed with the error recorded, and leaves the site's exhibition
\* rows as they were when the crawl started.
C2_FailureKeepsRows ==
    [][\A j \in DOMAIN tasks :
          (/\ j \in DOMAIN tasks'
           /\ tasks[j].pc = "orch"
           /\ tasks'[j].pc = "close"
           /\ tasks'[j].res.status = "failed") =>
              LET s == tasks[j].site
              IN  /\ museums'[s].scrape_status = "failed"
                  /\ museums'[s].error_message \in Errors
                  /\ museums'[s].error_message = tasks'[j].res.error
                  /\ ExhibitionsOf(exhibitions', s) = tasks[j].prior]_vars

\* A crawl failed for a site that had rows stored.
C2_Witness ==
    \E j \in DOMAIN tasks : tasks[j].res.status = "failed" /\ tasks[j].prior # {}

\* C3 (as claimed): once a site's crawl has succeeded, the rows stored for the
\* site are exactly the exhibitions of the crawl's result.
C3_SuccessReplacesRows ==
    \A j \in DOMAIN tasks :
        tasks[j].res.status = "success" =>
            ExhibitionsOf(exhibitions, tasks[j].site) = RowsOf(tasks[j].site, tasks[j].found)

\* No successful crawl of site s within the last DaysUntilRescrape days.
NoRecentSuccess(s) ==
    \/ crawl_history[s].last_success = NullTime
    \/ crawl_history[s].last_success + DaysUntilRescrape * DayTicks < clock

\* C4 (as claimed): a site whose latest crawl failed and which has no success
\* within the interval is selected by a scrape_outdated_museums run started now.
C4_FailedSiteStillDue ==
    \A s \in DOMAIN museums :
        (crawl_history[s].last_outcome = "failed" /\ NoRecentSuccess(s)) =>
            s \in SetOf(GetMuseumsToScrape(museums, clock, DaysUntilRescrape))

\* C5 (as claimed): scrape_specific_museum returns 'Museum not found' only when
\* no site with that name is registered.
C5_NotFoundOnlyIfUnregistered ==
    (op.kind = "specific" /\ spc = "returned" /\ ret.status = "error") =>
        \A s \in DOMAIN museums : museums[s].name # op.name

\* The step that starts scrape_outdated_museums.
StartsOutdated == nops' = nops + 1 /\ op'.kind = "outdated"

CrawlsInFlight == {j \in DOMAIN tasks : tasks[j].pc \in {"orch", "close"}}

\* C11: at most max_concurrent site crawls are in flight; while a batch runs,
\* its tasks are the due sites from position bi on, and every due site before
\* position bi has finished: its result, success or failed, is in results.
C11_ConsecutiveBatches ==
    /\ Cardinality(CrawlsInFlight) <= MaxConcurrent
    /\ (op.kind = "outdated" /\ spc = "gather") =>
          /\ Len(tasks) <= MaxConcurrent
          /\ \A j \in DOMAIN tasks : tasks[j].site = museums_to_scrape[bi + j - 1]
          /\ Len(results) = bi - 1
          /\ \A k \in 1 .. bi - 1 :
                /\ results[k].museum = MuseumName(museums_to_scrape[k])
                /\ results[k].status \in {"success", "failed"}

\* The second batch is in flight after a first batch of max_concurrent sites,
\* one of which failed.
C11_Witness ==
    /\ op.kind = "outdated" /\ spc = "gather" /\ bi = MaxConcurrent + 1
    /\ CrawlsInFlight # {}
    /\ \E k \in 1 .. bi - 1 : results[k].status = "failed"

(***************************************************************************)
(* Claims about run_for_museum (SpecOrch).                                 *)
(***************************************************************************)
TitleKeys == [k \in 1 .. Len(dedup_items) |-> normalize_title_key(dedup_items[k].title)]

\* The returned exhibitions that carry candidate k's url and title.
RecordsOf(k) ==
    {p \in 1 .. Len(run_result.exhibitions) :
        /\ run_result.exhibitions[p].url = dedup_items[k].href
        /\ run_result.exhibitions[p].title = dedup_items[k].title}

StringFields == {"main_artist", "start_date", "end_date", "details"}

\* r carries every non-empty field of the detail record rec.
CarriesDetail(r, rec) ==
    /\ \A f \in StringFields : Truthy(rec[f]) => r[f] = rec[f]
    /\ rec.other_artists # <<>> => r.other_artists = rec.other_artists

\* C7 (as claimed): the run raises only before the detail phase; when it
\* returns, every dedup candidate with a non-empty title key of its own yields
\* one record: the listing-only record if its detail task failed, a record
\* carrying the extracted detail fields otherwise.
C7_DetailFailuresIsolated ==
    /\ opc = "raised" => dtasks = <<>>
    /\ opc = "done" =>
          \A k \in 1 .. Len(dedup_items) :
              (/\ TitleKeys[k] # <<>>
               /\ \A l \in 1 .. Len(dedup_items) : l # k => TitleKeys[l] # TitleKeys[k]) =>
                  /\ Cardinality(RecordsOf(k)) = 1
                  /\ \A p \in RecordsOf(k) :
                        IF dtasks[k].out = "exhibition"
                        THEN CarriesDetail(run_result.exhibitions[p], dtasks[k].rec)
                        ELSE run_result.exhibitions[p] = BaseRecord(dedup_items[k])

\* C8 (as claimed, for the five overlaid fields): in the final record of a
\* candidate whose detail page was extracted, a field the detail record holds
\* null or empty keeps the listing value, and a field it holds non-empty has
\* the detail value.
C8_MergePrecedence ==
    opc = "done" =>
        \A k \in 1 .. Len(dedup_items) : \A p \in RecordsOf(k) :
            dtasks[k].out = "exhibition" =>
                LET r == run_result.exhibitions[p]
                    rec == dtasks[k].rec
                    base == BaseRecord(dedup_items[k])
                IN  /\ \A f \in StringFields :
                          r[f] = IF Truthy(rec[f]) THEN rec[f] ELSE base[f]
                    /\ r.other_artists = IF rec.other_artists # <<>>
                                         THEN rec.other_artists ELSE base.other_artists

\* Index of the first item of the listing with this href.
FirstSeen(href) == CHOOSE k \in 1 .. Len(items) :
                       /\ items[k].href = href
                       /\ \A l \in 1 .. k - 1 : items[l].href # href

ListingHrefs == {items[k].href : k \in 1 .. Len(items)}

InFlight == {i \in DOMAIN dtasks : dtasks[i].pc \in {"fetch", "llm"}}

\* C10: at most detail_concurrency detail tasks are between the start of
\* their fetch and the end of their extraction.
C10_BoundedDetailConcurrency == Cardinality(InFlight) <= DetailConcurrency

\* detail_concurrency tasks are in flight and another one waits.
C10_Witness ==
    /\ Cardinality(InFlight) = DetailConcurrency
    /\ \E i \in DOMAIN dtasks : dtasks[i].pc = "wait"

ResultKey(p) == normalize_title_key(run_result.exhibitions[p].title)

\* Candidate k is the first dedup candidate with its title key that has a title.
FirstOfKey(k) ==
    /\ dedup_items[k].title # <<>>
    /\ \A l \in 1 .. k - 1 : dedup_items[l].title = <<>> \/ TitleKeys[l] # TitleKeys[k]

\* C20: in the result of run_for_museum no two exhibitions have the same
\* normalized title key and none has an empty title; a candidate is returned
\* if and only if it is the first candidate of its key, and a record that
\* stems from no candidate is returned only if no titled candidate has its key.
C20_FinalDedup ==
    opc = "done" =>
        /\ \A p, q \in 1 .. Len(run_result.exhibitions) : p # q => ResultKey(p) # ResultKey(q)
        /\ \A p \in 1 .. Len(run_result.exhibitions) : run_result.exhibitions[p].title # <<>>
        /\ \A k \in 1 .. Len(dedup_items) : FirstOfKey(k) <=> RecordsOf(k) # {}
        /\ \A p \in 1 .. Len(run_result.exhibitions) :
              run_result.exhibitions[p].url \notin ListingHrefs =>
                  \A k \in 1 .. Len(dedup_items) :
                      dedup_items[k].title # <<>> => TitleKeys[k] # ResultKey(p)

\* Two candidates with different titles and the same key: the first is
\* returned, the second is not.
C20_Witness ==
    /\ opc = "done"
    /\ Len(dedup_items) >= 2
    /\ dedup_items[1].title # dedup_items[2].title
    /\ TitleKeys[1] = TitleKeys[2] /\ TitleKeys[1] # <<>>
    /\ RecordsOf(1) # {} /\ RecordsOf(2) = {}

\* C16 (as claimed): run_for_museum raises only out of its first step, the
\* fetch and condensing of the listing url.
C16_OnlyListingFetchEscalates == [][opc' = "raised" => opc = "start"]_vars

\* The per-page status of a detail task's href, "none" while it has none.
TimingOf(href) ==
    IF \E k \in 1 .. Len(per_page_timings) : per_page_timings[k].href = href
    THEN per_page_timings[CHOOSE k \in 1 .. Len(per_page_timings) :
                              per_page_timings[k].href = href].status
    ELSE "none"

\* C17 (as claimed): a detail task whose extract_detail call returned without
\* raising (its per-page status is ok) has yielded an exhibition record.
C17_ExtractDetailAlwaysYieldsRecord ==
    \A i \in DOMAIN dtasks :
        (dtasks[i].pc = "done" /\ TimingOf(dtasks[i].href) = "ok") =>
            dtasks[i].out = "exhibition"

(***************************************************************************)
(* Claims about fetch_html (SpecFetch).                                    *)
(***************************************************************************)
TierOrder == <<"http2", "http1", "browser">>

Steps(i) == i \notin DOMAIN calls \/ calls[i] # calls'[i]

\* Call i returns in the step.
Returns(i) == Steps(i) /\ calls'[i].pc = "returned"

\* Call i obtains html from a network tier in the step.
Obtains(i) ==
    /\ i \in DOMAIN calls
    /\ calls[i].html = Missing
    /\ calls'[i].html # Missing

NotFound404 == {404, 410}

\* C14 (as claimed): a call whose response was 404 or 410 has ended in failure
\* with that attempt as its last one, and has no html to return.
C14_NotFoundIsTerminal ==
    \A i \in DOMAIN calls : \A k \in 1 .. Len(calls[i].attempts) :
        calls[i].attempts[k].status \in NotFound404 =>
            /\ Len(calls[i].attempts) = k
            /\ calls[i].pc = "raised"
            /\ calls[i].html = Missing

\* The browser sessions that are live in the process.
LiveSessions == {c \in Condensers : driver[c].live}

\* C15 (as claimed): at most one browser session is live in the process.
\* (A navigation is a synchronous call on the event loop, BrowserFetch is one
\* step: two navigations never overlap.)
C15_OneBrowserSession == Cardinality(LiveSessions) <= 1

(***************************************************************************)
(* Claims about save_exhibitions (SpecSave).                               *)
(***************************************************************************)
KeysOf(rows) == {IdentityKey(rows[i]) : i \in 1 .. Len(rows)}

\* C18: after the same list was saved again for the same site, the site has
\* as many exhibition rows as after the first save, with the same identity
\* keys (title, site, start_date_iso).
C18_RepeatedSaveSameRows ==
    \A m \in SaveMuseums :
        \A i \in 1 .. Len(save_log[m]) :
            /\ Len(save_log[m][i]) = Len(save_log[m][1])
            /\ KeysOf(save_log[m][i]) = KeysOf(save_log[m][1])

(***************************************************************************)
(* Claims about normalize_title_key (SpecKey).                             *)
(***************************************************************************)
\* The letter a character stands for, whatever its case and accent.
BaseLetter(c) == IF c \in {"e", "E", "e_acute"} THEN "e" ELSE c

Punctuation == {"-", "_", "!"}

\* The hyphen and the underscore are what the pattern [^\w\s-] keeps.
RemovedPunctuation == Punctuation \ {"-", "_"}

\* A title with the characters of set p deleted and every letter replaced by
\* its base letter.
Without(t, p) ==
    LET kept == SelectSeq(t, LAMBDA c : c \notin p)
    IN  [i \in 1 .. Len(kept) |-> BaseLetter(kept[i])]

\* Two titles differ only by accents, letter case or characters of p.
DifferOnlyBy(t, u, p) == Without(t, p) = Without(u, p)

KeysComputed == keys # NoKeys

FirstCallOf(k) ==
    CHOOSE i \in 1 .. Len(artist_calls) :
        /\ normalize_artist_name(strip(artist_calls[i].name)) = k
        /\ \A j \in 1 .. i - 1 : normalize_artist_name(strip(artist_calls[j].name)) # k

\* C21: no two artist rows have the same normalized name; a name with an
\* empty normalized key creates no row and resolves to none; every other
\* name resolves to the one row of its key, which keeps the display form of
\* the first name seen with that key.
C21_ArtistsUniqueByNormalizedName ==
    /\ \A i, j \in 1 .. Len(artists) :
           artists[i].normalized_name = artists[j].normalized_name => i = j
    /\ \A i \in 1 .. Len(artists) : artists[i].normalized_name # <<>>
    /\ \A c \in 1 .. Len(artist_calls) :
           LET k == normalize_artist_name(strip(artist_calls[c].name))
               id == artist_calls[c].id
           IN  IF k = <<>> THEN id = NoId
               ELSE /\ id \in 1 .. Len(artists)
                    /\ artists[id].normalized_name = k
                    /\ artists[id].name = strip(artist_calls[FirstCallOf(k)].name)

\* Three calls: a name creates a row, a spelling variant of it resolves to
\* that row, and a name with an empty key creates none.
C21_Witness ==
    /\ Len(artist_calls) = 3
    /\ artist_calls[1] = [name |-> <<"e_acute", "-">>, id |-> 1]
    /\ artist_calls[2] = [name |-> <<" ", "E">>, id |-> 1]
    /\ artist_calls[3] = [name |-> <<"-", " ">>, id |-> NoId]
    /\ artists = <<[name |-> <<"e_acute", "-">>, normalized_name |-> <<"e">>]>>

(***************************************************************************)
(* Claims about the registry tables (SpecRegistry).                        *)
(***************************************************************************)
\* Every row of table seq is still at its place in table seq2, with the same
\* value of Key.
RowsKept(seq, seq2, Key(_)) ==
    /\ Len(seq) <= Len(seq2)
    /\ \A i \in 1 .. Len(seq) : Key(seq2[i]) = Key(seq[i])

\* The sites of the tables t by (name, city, country).
SiteSet(t) ==
    {<<t.museums[i].name, t.cities[t.museums[i].city_id].name,
       t.countries[t.cities[t.museums[i].city_id].country_id]>> : i \in 1 .. Len(t.museums)}

CsvSites(csv) == {<<csv[i].museum, csv[i].city, csv[i].country>> : i \in 1 .. Len(csv)}

\* C22: no step deletes a country, city, site or artist row; an import adds
\* exactly the sites of its file that were not present, one row each, and
\* importing a file again leaves the site table as it was.
C22_NoRowDeleted ==
    [][/\ RowsKept(countries, countries', LAMBDA c : c)
       /\ RowsKept(cities, cities', LAMBDA c : c)
       /\ RowsKept(museum_rows, museum_rows', LAMBDA m : <<m.name, m.city_id>>)
       /\ RowsKept(artists, artists', LAMBDA a : a)
       /\ \A k \in 1 .. Len(import_log') :
              LET e == import_log'[k]
              IN  e.kind = "import" =>
                     /\ SiteSet(e.after) = SiteSet(e.before) \cup CsvSites(e.csv)
                     /\ Cardinality(SiteSet(e.after)) = Len(e.after.museums)
                     /\ \A j \in 1 .. k - 1 :
                            (import_log'[j].kind = "import" /\ import_log'[j].csv = e.csv)
                                => Len(e.after.museums) = Len(e.before.museums)]_vars

\* A registry of two sites was imported, a crawl succeeded and created an
\* artist, and the same registry was imported again.
C22_Witness ==
    /\ Len(import_log) = 3
    /\ import_log[1].kind = "import"
    /\ Len(import_log[1].csv) = 2
    /\ Len(import_log[1].after.museums) = 2
    /\ import_log[2].kind = "save"
    /\ Len(artists) = 1
    /\ import_log[3].kind = "import"
    /\ import_log[3].csv = import_log[1].csv
    /\ Len(museum_rows) = 2

(***************************************************************************)
(* Further claims about the scheduler and the store (Spec).                *)
(***************************************************************************)
\* C23: a site whose status is success has an exhibition_count equal to the
\* number of exhibition rows stored for it.
C23_SuccessCountMatchesRows ==
    \A s \in DOMAIN museums :
        museums[s].scrape_status = "success" =>
            museums[s].exhibition_count = Cardinality(ExhibitionsOf(exhibitions, s))

(***************************************************************************)
(* Further claims about save_exhibitions (SpecSave).                       *)
(***************************************************************************)
\* The rows of museum m are those of the whole list: every exhibition of the
\* list has its row and every row is an exhibition of the list.
HoldsWholeList(rows, m) ==
    /\ \A i \in 1 .. Len(save_list) :
           \E k \in 1 .. Len(rows) :
               /\ rows[k].title = save_list[i].title
               /\ rows[k].start_date_text = save_list[i].start_date
    /\ \A k \in 1 .. Len(rows) :
           \E i \in 1 .. Len(save_list) :
               /\ rows[k].title = save_list[i].title
               /\ rows[k].start_date_text = save_list[i].start_date

\* C24: a save commits either no change to the site's rows or their
\* replacement by the rows of the whole list.
C24_SaveIsAtomic ==
    [][\A m \in SaveMuseums :
          \/ MuseumRows(ex_rows', m) = MuseumRows(ex_rows, m)
          \/ HoldsWholeList(MuseumRows(ex_rows', m), m)]_vars

(***************************************************************************)
(* Claims about parse_date_range_text (SpecRange).                         *)
(***************************************************************************)
RangeParsed == range_result # NoRangeResult

\* The left fragment names a day but not its year, and the right fragment is
\* a full date: "27 June - 8 November 2026", "27 - 8 November 2026".
LeftLacksYear ==
    /\ range_text.left.day # NoField
    /\ range_text.left.year = NoField
    /\ RightNamesFullDate(range_text.right)

\* C25: '27 June - 8 November 2026' gives 2026-06-27 and 2026-11-08,
\* '27 - 8 November 2026' gives 2026-11-27 and 2026-11-08, a left fragment
\* with its own year keeps it, and whenever both dates are produced from a
\* range whose left fragment lacks the year they share the right one's year.
C25_LeftFilledFromRight ==
    RangeParsed =>
        /\ (range_text = [left |-> Fragment(27, FALSE, 6, NoField),
                          right |-> Fragment(8, FALSE, 11, 2026)])
              => range_result = <<(<<2026, 6, 27>>), (<<2026, 11, 8>>)>>
        /\ (range_text = [left |-> Fragment(27, FALSE, NoField, NoField),
                          right |-> Fragment(8, FALSE, 11, 2026)])
              => range_result = <<(<<2026, 11, 27>>), (<<2026, 11, 8>>)>>
        /\ (range_text = [left |-> Fragment(27, FALSE, 6, 2025),
                          right |-> Fragment(8, FALSE, 11, 2026)])
              => range_result = <<(<<2025, 6, 27>>), (<<2026, 11, 8>>)>>
        /\ (LeftLacksYear /\ range_result[1] # NoIso /\ range_result[2] # NoIso)
              => range_result[1][1] = range_text.right.year

(***************************************************************************)
(* Further claims about fetch_html (SpecFetch).                            *)
(***************************************************************************)
\* Condenser c0 belongs to a crawl that is over and that obtained the url
\* from the network.
FetchedByEarlierCrawl(c0, url) ==
    /\ closed[c0]
    /\ \E j \in DOMAIN calls :
           /\ calls[j].condenser = c0
           /\ calls[j].url = url
           /\ calls[j].pc = "returned"
           /\ ~calls[j].from_cache

\* C26: a fetch that a crawl starts for a url which an earlier, finished
\* crawl had fetched is not answered from the cache: it reads the page as it
\* is now.
C26_RecrawlReadsCurrentPage ==
    [][Len(calls') > Len(calls) =>
          LET call == calls'[Len(calls')]
          IN  (\E c0 \in Condensers \ {call.condenser} : FetchedByEarlierCrawl(c0, call.url))
                  => ~call.from_cache]_vars

(***************************************************************************)
(* Claims about extract_listing (SpecListing).                             *)
(***************************************************************************)
\* A raw item with the shape of an ExhibitionListItem.
HasListItemShape(it) == it.json = "object" /\ it.title # Null /\ it.href # Null

WellShaped(raw) ==
    LET kept == SelectSeq(raw, HasListItemShape)
    IN  [i \in 1 .. Len(kept) |-> [title |-> kept[i].title, href |-> kept[i].href]]

\* C27: extract_listing returns, and returns the well-shaped raw items in
\* their order, whatever the other items are.
C27_InvalidItemsDropped ==
    listing_outcome # NoListingOutcome =>
        /\ listing_outcome.status = "returned"
        /\ listing_outcome.items = WellShaped(raw_items)

(***************************************************************************)
(* Claims about _get_listing_bundle (SpecBundle).                          *)
(***************************************************************************)
\* The hrefs of the pager anchors of the base listing page, in page order.
BasePagerHrefs ==
    LET ps == SelectSeq(bundles[1].anchors, LAMBDA a : a.pager)
    IN  [k \in 1 .. Len(ps) |-> ps[k].href]

EmptyKeyed(ex) == ex.title # <<>> /\ normalize_title_key(ex.title) = <<>>

\* C29: of two records whose titles are different non-empty strings that
\* both normalize to the empty key, the later one is not dropped as a
\* duplicate of the earlier one: unless its very title came before, it is
\* among the records kept.
C29_EmptyKeyNotDedupKey ==
    dedup_done =>
        \A i, j \in 1 .. Len(merge_results) :
            (/\ i < j
             /\ EmptyKeyed(merge_results[i])
             /\ EmptyKeyed(merge_results[j])
             /\ merge_results[i].title # merge_results[j].title
             /\ \A k \in 1 .. j - 1 : merge_results[k].title # merge_results[j].title)
                => \E u \in 1 .. Len(uniq_kept) : uniq_kept[u].title = merge_results[j].title

(***************************************************************************)
(* Claims about the detail modes (SpecTodo).                               *)
(***************************************************************************)
LongTitle(it) == SplitLen(it.title) > 2

HasDateText(it) == it.date_text # Null /\ it.date_text # ""

Selected(it) == \E k \in 1 .. Len(todo_sel) : todo_sel[k] = it

\* The first n elements of seq.
FirstN(seq, n) == SubSeq(seq, 1, IF n < Len(seq) THEN n ELSE Len(seq))

\* off: nothing selected, no coroutine; full: every item selected.
OffAndFull ==
    /\ detail_mode = "off" => todo_sel = <<>> /\ detail_coros = <<>>
    /\ detail_mode = "full" => todo_sel = candidates_in
    /\ Len(detail_coros) = Len(todo_sel)
    /\ \A k \in 1 .. Len(todo_sel) : detail_coros[k] = todo_sel[k].href

\* C30 as stated: in light mode an item with a long title or with a date
\* text is skipped, and at most light_cap items are selected.
C30_LightSkipsLongOrDated ==
    todo_done =>
        /\ OffAndFull
        /\ detail_mode = "light" =>
              /\ Len(todo_sel) <= light_cap
              /\ \A k \in 1 .. Len(candidates_in) :
                     (LongTitle(candidates_in[k]) \/ HasDateText(candidates_in[k]))
                         => ~Selected(candidates_in[k])

\* C30 amended: in light mode an item is skipped when its title is long and
\* it has a date text; the first light_cap of the other items are selected.
C30_LightSkipsLongAndDated ==
    todo_done =>
        /\ OffAndFull
        /\ detail_mode = "light" =>
              todo_sel = FirstN(SelectSeq(candidates_in,
                                      LAMBDA it : ~(LongTitle(it) /\ HasDateText(it))),
                            light_cap)

\* Light mode with cap 2 on three items: a long dated one is skipped, a long
\* undated one and a short dated one are selected.
C30_Witness ==
    /\ todo_done
    /\ detail_mode = "light"
    /\ light_cap = 2
    /\ Len(candidates_in) = 3
    /\ LongTitle(candidates_in[1]) /\ HasDateText(candidates_in[1])
    /\ LongTitle(candidates_in[2]) /\ ~HasDateText(candidates_in[2])
    /\ ~LongTitle(candidates_in[3]) /\ HasDateText(candidates_in[3])
    /\ todo_sel = <<candidates_in[2], candidates_in[3]>>

(***************************************************************************)
(* Collect-then-merge (SpecOrch).                                          *)
(***************************************************************************)
\* C31: the run reaches its merge (and returns) only from a state where every
\* detail task is done; while the detail tasks run no step changes a base
\* record; every write to the per-page map adds an entry of its own and
\* leaves the entries already written as they are.
C31_CollectThenMerge ==
    [][/\ (opc = "details" /\ opc' = "done") =>
              \A i \in DOMAIN dtasks : dtasks[i].pc = "done"
       /\ opc = "details" => base_records' = base_records
       /\ per_page_timings' # per_page_timings =>
              /\ Len(per_page_timings') = Len(per_page_timings) + 1
              /\ SubSeq(per_page_timings', 1, Len(per_page_timings)) = per_page_timings
              /\ \A k \in 1 .. Len(per_page_timings) :
                     per_page_timings[k].href # per_page_timings'[Len(per_page_timings')].href]_vars

\* Two detail tasks wrote their entries and the merge then enriched a base record.
C31_Witness ==
    /\ opc = "done"
    /\ Len(dtasks) >= 2
    /\ Len(per_page_timings) = Len(dtasks)
    /\ \E k \in 1 .. Len(run_result.exhibitions) :
          run_result.exhibitions[k].main_artist = "artist"

(***************************************************************************)
(* A detail page that never responds (SpecSlow).                           *)
(***************************************************************************)
\* C32: with a detail page that never responds the batch still completes and
\* the scheduler reaches the next batch, and the page ends recorded as a
\* detail-page failure.
C32_SlowPageEndsAsFailure ==
    /\ <>(batch_pc = "next_batch")
    /\ [](page_tasks[Unresponsive].pc = "done" =>
              page_tasks[Unresponsive].status \in {"fetch_error", "llm_error"})

(***************************************************************************)
(* The condenser of a finished site crawl (SpecFetch).                     *)
(***************************************************************************)
\* close() is the last call of scrape_museum (its finally): once it has been
\* called and has ended, scrape_museum returns.
ScrapeMuseumReturned(c) == closed[c]

\* C33: when scrape_museum has returned, the browser session of its condenser
\* is not live.
C33_ReturnedCrawlHoldsNoSession ==
    \A c \in Condensers : ScrapeMuseumReturned(c) => ~driver[c].live

(***************************************************************************)
(* The status columns of the museums table (Spec).                         *)
(***************************************************************************)
\* Task j's scrape_museum wrote its site's status in this step.
StatusWrittenBy(j) ==
    /\ j \in DOMAIN tasks /\ j \in DOMAIN tasks'
    /\ tasks[j].pc = "orch"
    /\ tasks'[j].pc = "close"

\* C34: the step in which a crawl writes its site's status leaves the row of
\* every other site as it was, a site of the same name in another city included.
C34_StatusUpdateTouchesOneSite ==
    [][\A j \in DOMAIN tasks :
          StatusWrittenBy(j) =>
              \A t \in DOMAIN museums \ {tasks[j].site} : museums'[t] = museums[t]]_vars

\* C35: every site's status is pending, success or failed; it is pending
\* exactly when last_scraped is NULL; a site that is not pending never becomes
\* pending again.
C35_StatusDomain ==
    /\ [](\A s \in DOMAIN museums :
             /\ museums[s].scrape_status \in {"pending", "success", "failed"}
             /\ museums[s].scrape_status = "pending" <=> museums[s].last_scraped = NullTime)
    /\ [][\A s \in DOMAIN museums :
             museums[s].scrape_status # "pending" =>
                 s \in DOMAIN museums' /\ museums'[s].scrape_status # "pending"]_vars

\* One site crawled with success and one failed, both with a timestamp.
C35_Witness ==
    /\ \E s \in DOMAIN museums :
          museums[s].scrape_status = "success" /\ museums[s].last_scraped # NullTime
    /\ \E s \in DOMAIN museums :
          museums[s].scrape_status = "failed" /\ museums[s].last_scraped # NullTime

(***************************************************************************)
(* Concurrent fetch_html calls on the shared cache directory (SpecFetch).  *)
(***************************************************************************)
\* The caching calls for url that went to the network.
NetworkCalls(url) ==
    {i \in DOMAIN calls : calls[i].url = url /\ calls[i].use_cache /\ ~calls[i].from_cache}

\* C36: with caching enabled each url is requested from the network by at
\* most one call; every other call for it is served from the cache.
C36_OneNetworkRequestPerUrl == \A url \in Urls : Cardinality(NetworkCalls(url)) <= 1

(***************************************************************************)
(* Further claims about run_for_museum (SpecOrch).                         *)
(***************************************************************************)
CandidateHrefs == {dedup_items[k].href : k \in 1 .. Len(dedup_items)}

\* C37: every returned exhibition has the href of a deduplicated candidate as
\* its url, no two returned exhibitions share a candidate, and there are at
\* most as many returned exhibitions as candidates.
C37_ResultsStemFromCandidates ==
    opc = "done" =>
        LET exs == run_result.exhibitions
        IN  /\ \A k \in 1 .. Len(exs) : exs[k].url \in CandidateHrefs
            /\ \A k, l \in 1 .. Len(exs) : exs[k].url = exs[l].url => k = l
            /\ Len(exs) <= Len(dedup_items)

\* The entries of the summary's per-page map for a page.
EntriesOf(href) ==
    {k \in 1 .. Len(run_result.per_page) : run_result.per_page[k].href = href}

\* C38: in the summary the per-page map holds exactly one entry per detail
\* task and no other, each with status ok, fetch_error or llm_error; the
\* entry is ok exactly when the task's record went into detail_results; and
\* scraped + failed is the number of detail candidates.
C38_PerPageMatchesCounts ==
    opc = "done" =>
        /\ Len(run_result.per_page) = Len(dtasks)
        /\ \A i \in DOMAIN dtasks :
               /\ Cardinality(EntriesOf(dtasks[i].href)) = 1
               /\ \A k \in EntriesOf(dtasks[i].href) :
                      /\ run_result.per_page[k].status \in {"ok", "fetch_error", "llm_error"}
                      /\ run_result.per_page[k].status = "ok" <=> dtasks[i].out = "exhibition"
        /\ run_result.counts.scraped =
               Cardinality({i \in DOMAIN dtasks : dtasks[i].out = "exhibition"})
        /\ run_result.counts.scraped + run_result.counts.failed
               = run_result.counts.detail_candidates

(***************************************************************************)
(* scrape_outdated_museums as a whole (Spec).                              *)
(***************************************************************************)
\* The step creates the scrape_museum coroutines of a batch.
BatchStarts == tasks = <<>> /\ tasks' # <<>>

\* C39: scrape_outdated_museums starts the crawls batch by batch over the due
\* list, the first batch at its first site, each batch where the previous one
\* ended, so that every due site is started exactly once; it returns one
\* result per due site in due order, each success or failed, with
\* museums_scraped + museums_failed the number of due sites; with no due site
\* it returns up_to_date and no batch was started.
C39_OutdatedCrawlsEachDueSiteOnce ==
    /\ [](op.kind = "outdated" /\ spc = "returned" =>
             IF museums_to_scrape = <<>>
             THEN ret.status = "up_to_date" /\ bi = 0 /\ tasks = <<>> /\ ret.results = <<>>
             ELSE /\ ret.status = "complete"
                  /\ bi <= Len(museums_to_scrape)
                  /\ Len(museums_to_scrape) < bi + MaxConcurrent
                  /\ \A k, l \in 1 .. Len(museums_to_scrape) :
                         museums_to_scrape[k] = museums_to_scrape[l] => k = l
                  /\ Len(ret.results) = Len(museums_to_scrape)
                  /\ \A k \in 1 .. Len(ret.results) :
                         /\ ret.results[k].museum = MuseumName(museums_to_scrape[k])
                         /\ ret.results[k].status \in {"success", "failed"}
                  /\ ret.museums_scraped + ret.museums_failed = Len(museums_to_scrape))
    /\ [][op'.kind = "outdated" /\ BatchStarts =>
             /\ bi' = IF spc = "sleep" THEN bi + MaxConcurrent ELSE 1
             /\ spc = "sleep" => bi + MaxConcurrent <= Len(museums_to_scrape)
             /\ spc = "sleep" => museums_to_scrape' = museums_to_scrape
             /\ Len(tasks') = Min(MaxConcurrent, Len(museums_to_scrape') - bi' + 1)
             /\ \A j \in DOMAIN tasks' :
                    /\ tasks'[j].site = museums_to_scrape'[bi' + j - 1]
                    /\ tasks'[j].pc = "orch"]_vars

\* Three due sites were crawled in two batches, with a success and a failure.
C39_Witness ==
    /\ op.kind = "outdated"
    /\ spc = "returned"
    /\ Len(museums_to_scrape) = 3
    /\ ret.museums_scraped >= 1
    /\ ret.museums_failed >= 1

(***************************************************************************)
(* The trigger surface (SpecApi).                                          *)
(***************************************************************************)
\* The scrape_museum coroutines of site s that have not returned.
TriggeredCrawlsInFlight(s) ==
    {<<t, j>> \in (DOMAIN api_tasks) \X (1 .. NumSites) :
        /\ j \in DOMAIN api_tasks[t].batch
        /\ api_tasks[t].batch[j].site = s
        /\ api_tasks[t].batch[j].pc = "orch"}

\* C40: at most one crawl of a site is in flight, whatever triggers were issued.
C40_OneCrawlPerSite == \A s \in Sites : Cardinality(TriggeredCrawlsInFlight(s)) <= 1

====
